---- MODULE Spec2Model ----
(***************************************************************************)
(* CephForge: the execution engine of the manager                          *)
(* (src/manager/core/execution_engine.py), the execution routes that       *)
(* drive it (src/manager/api/routes/executions.py) and the execution       *)
(* record of the data store (src/manager/storage/data_store.py).           *)
(*                                                                         *)
(* One execution is followed from the background task that runs            *)
(* run_execution to its end.  Every await of the coroutines is a step:     *)
(* an action is the effect of the awaited call together with the           *)
(* synchronous code that follows it up to the next await.  The stop,       *)
(* pause and resume routes are coroutines of their own and interleave      *)
(* with the engine at their awaits.                                        *)
(***************************************************************************)
EXTENDS Integers, Sequences, FiniteSets, TLC

\* ---------------------------------------------------------------- bounds
NumWorkers == 2
MaxSignals == 2
MaxIops == 2
GateWorkers == 2
GateSignals == 1
ScaleWorkers == 3
MaxCalls == 1
MaxCount == 2
RouteWorkers == 1
RouteSignals == 2
MetricWorkers == 2
MaxBw == 1
MaxLat == 1
MaxChecks == 1
MaxCommands == 3
PreWorkers == 1
SignalCalls == 3
SnapWorkers == 1
MaxExecutions == 2
MaxSamples == 4
MaxLimit == 3
DeployWorkers == 2
MaxHandlers == 2
MaxEvents == 2
MaxBusCalls == 4
AgentRuns == 2
MaxAgentEvents == 5

\* ------------------------------------------------------------- variables
VARIABLES
    status,            \* executions.status of the record in the store
    started_at,        \* executions.started_at: "null", "set", or "reset" once overwritten
    completed_at,      \* executions.completed_at: "null" or "set"
    phase,             \* state["phase"] of the engine's entry
    pc,                \* position of the run_execution task
    active,            \* execution_id in _active_executions
    clients,           \* state["clients"], a list
    clients_repr,      \* what the members of state["clients"] are: "dict" or "id"
    excluded_clients,  \* state["excluded_clients"]
    stop_flags,        \* _stop_flags: "absent", "false" or "true"
    pause_flags,       \* _pause_flags: "absent", "false" or "true"
    cfg,               \* workload_config and run_prechecks handed to run_execution
    report,            \* verdict of the precheck report: "none", "passed", "failed"
    selected_clients,  \* local selected_clients of _run_prepare_phase
    fio_failed,        \* local fio_failed of _run_prepare_phase
    failed_mounts,     \* local failed_mounts of _run_prepare_phase
    local_clients,     \* local clients of _run_execution_phase / _run_cleanup_phase
    results,           \* what gather returned, per position of run_clients
    client_metrics,    \* metrics/clients/<id>.jsonl: worker -> list of iops.t
    aggregate,         \* metrics/aggregate.jsonl: list of aggregate samples
    exec_log,          \* execution.log lines that name a worker: set of workers
    command_log,       \* WorkloadExecutor.command_log
    saved_command_log, \* commands.json of the execution (empty: no file)
    issued,            \* remote commands issued so far: set of <<kind, worker>>
    summary,           \* summary.json, with saved = FALSE while there is no file
    published,         \* events handed to the bus: set of <<type, target>>
    stop_seen,         \* the engine observed the stop flag at a checkpoint
    stop_during,       \* statuses the record had when the stop flag was set with
                       \* run_execution still inside its try block
    pauseReq,          \* position of the pause route
    resumeReq,         \* position of the resume route
    stopReq,           \* position of the stop route
    budget,            \* control requests that may still be accepted
    inventory,         \* the worker catalog of the store, in the order of clients.yaml
    online,            \* the workers whose status in the store is "online"
    up,                \* the scale_up call in flight and what the last one returned
    down,              \* the scale_down call in flight and what the last one returned
    runner,            \* a PrecheckRunner and what its checks and commands will answer
    precheck,          \* the locals of its run_all_prechecks and the report
    bus,               \* the Redis connection of the manager: "up" or "down"
    workloads,         \* config/workloads/custom/N.yaml: <<>> or <<definition>>
    snapshot,          \* executions/<id>/config.yaml: <<>> or <<definition dumped>>
    xpc,               \* several executions on one engine: where each one is
    shared_log,        \* WorkloadExecutor.command_log, entries <<execution, kind>>
    logged,            \* per execution, the commands it passed to log_command
    commands_json,     \* per execution, its commands.json (empty: no file)
    query,             \* a metrics request: the file read, start_time, end_time, limit
    response,          \* what get_metrics gave for it
    deploy,            \* a deploy_to_clients call: its input, its tasks, its return
    ssh,               \* an SSHClient.run_command call: its input, its step, its result
    hub,               \* RedisClient._handlers, and the handler calls of the last message
    conn,              \* RedisClient._redis and _pubsub, the server, and the last call
    agent,             \* the agent's WorkloadExecutor, its start task and its process
    progress           \* one worker's deployment through the route, and its row

precheckVars == <<runner, precheck>>
snapVars   == <<workloads, snapshot>>
engineSetVars == <<xpc, shared_log, logged, commands_json>>
readVars   == <<query, response>>
auxVars    == <<ssh, hub, conn, agent, progress>>
constVars  == <<cfg, inventory, online, bus, precheckVars, snapVars, engineSetVars,
               readVars, deploy, auxVars>>
scaleVars  == <<up, down>>
recordVars == <<status, started_at, completed_at>>
flagVars   == <<stop_flags, pause_flags>>
routeVars  == <<pauseReq, resumeReq, stopReq, budget, stop_during>>
stateVars  == <<active, clients, clients_repr, excluded_clients>>
prepVars   == <<selected_clients, fio_failed, failed_mounts>>
runVars    == <<local_clients, results>>
fileVars   == <<client_metrics, aggregate, exec_log, saved_command_log, summary>>
cmdVars    == <<command_log, issued>>
mainVars   == <<recordVars, flagVars, routeVars, phase, pc, report, published,
               stop_seen, cfg, inventory, online, bus, precheckVars, scaleVars,
               stateVars, prepVars, runVars, fileVars, cmdVars>>
restVars   == <<mainVars, snapVars, engineSetVars, readVars, deploy>>
engineVars == <<phase, pc, report, published, stop_seen, constVars, scaleVars, stateVars,
                prepVars, runVars, fileVars, cmdVars>>

vars == <<recordVars, flagVars, routeVars, engineVars>>

\* --------------------------------------------------------------- helpers
Min(a, b) == IF a < b THEN a ELSE b

Range(s) == {s[i] : i \in 1..Len(s)}

\* s[:n] of Python for n >= 0
Take(s, n) == SubSeq(s, 1, Min(n, Len(s)))

\* [c for c in s if c not in drop]
Without(s, drop) == SelectSeq(s, LAMBDA c : c \notin drop)

\* [c for c in s if c in keep]
Only(s, keep) == SelectSeq(s, LAMBDA c : c \in keep)

RECURSIVE SumSeq(_)
SumSeq(s) == IF s = <<>> THEN 0 ELSE Head(s) + SumSeq(Tail(s))

RECURSIVE MaxSeq(_)
MaxSeq(s) == IF s = <<>> THEN 0
             ELSE LET m == MaxSeq(Tail(s)) IN IF Head(s) > m THEN Head(s) ELSE m

\* a worker catalog of n workers
Catalog(n) == [i \in 1..n |-> i]

TerminalStatuses == {"completed", "failed", "cancelled"}

Statuses == {"pending", "prechecks", "preparing", "running", "paused",
             "stopping", "completed", "failed", "cancelled"}
\* ------------------------------------------------------- the data store
\* DataStore.update_execution_status: the UPDATE of the execution's row
UpdateExecutionStatus(s) ==
    /\ status' = s
    /\ started_at' = IF s = "running"
                     THEN (IF started_at = "null" THEN "set" ELSE "reset")
                     ELSE started_at
    /\ completed_at' = IF s \in TerminalStatuses THEN "set" ELSE completed_at

\* ------------------------------------------------------------ the inputs
SelectionPolicies(n) ==
    {[mode |-> "all", count |-> 0, client_ids |-> {}]}
    \cup {[mode |-> "count", count |-> k, client_ids |-> {}] : k \in 1..n}
    \cup {[mode |-> "specific", count |-> 0, client_ids |-> ids] :
            ids \in (SUBSET (1..n)) \ {{}}}

Tools == {"fio", "fill_cluster"}

\* storage_type "file" with a mount section, or no mount at all
Mounts == {"none", "cephfs", "nfs"}

Configs(n) == [run_prechecks : BOOLEAN, clients : SelectionPolicies(n),
               tool : Tools, mount : Mounts]

\* outcome of ensure_fio_installed on one worker
FioOutcomes == {"present", "installed", "failed"}

\* what one task of the run fan-out returns: an exception, (False, msg, {}),
\* (True, msg, {}) or (True, msg, metrics) with metrics["iops"]["t"] = m
RunResults == {<<"exception", 0>>, <<"failed", 0>>, <<"empty", 0>>}
              \cup {<<"ok", m>> : m \in 1..MaxIops}

\* ----------------------------------------------------------- the engine
\* the selection of _run_prepare_phase (lines 163-181)
SelectClients(available, sel) ==
    IF sel.mode = "all" THEN available
    ELSE IF sel.mode = "count" THEN Take(available, sel.count)
    ELSE IF sel.mode = "specific" THEN Only(available, sel.client_ids)
    ELSE available

\* ExecutionEngine._cleanup_execution
CleanupExecution ==
    /\ active' = FALSE
    /\ stop_flags' = "absent"
    /\ pause_flags' = "absent"

\* log_command calls of one fan-out: one entry per worker of s
LogAll(kind, s) == [i \in 1..Len(s) |-> <<kind, s[i]>>]

NoSummary == [saved |-> FALSE, total_samples |-> 0, clients |-> <<>>,
              peak_iops |-> 0]

\* what scale_up and scale_down return: nothing yet, {"error": ...}, an
\* exception, or the dict with the ids added or removed and total_clients;
\* and the 400 of the scale route
NoResult == [outcome |-> "none", changed |-> <<>>, total_clients |-> 0]
ErrorResult == [outcome |-> "error", changed |-> <<>>, total_clients |-> 0]
Raised == [outcome |-> "raised", changed |-> <<>>, total_clients |-> 0]
Returned(changed, n) == [outcome |-> "ok", changed |-> changed, total_clients |-> n]
Rejected == [outcome |-> "rejected", changed |-> <<>>, total_clients |-> 0]

\* no scale call in flight: the arguments of the last call and its result
\* stay, the locals are gone
Idle(count, ids, res) ==
    [pc |-> "idle", count |-> count, client_ids |-> ids, at |-> "none",
     prev |-> <<>>, available |-> <<>>, current_clients |-> <<>>,
     todo |-> <<>>, changed |-> <<>>, result |-> res]

\* the call returns: as Idle, with the status the scale route read for it
Done(call, res) ==
    [Idle(call.count, call.client_ids, res) EXCEPT !.at = call.at]

\* a PrecheckRunner that checks nothing
NoRunner == [check_cluster |-> FALSE, reachable |-> TRUE, checks |-> <<>>,
             custom_commands |-> <<>>, check_clients |-> FALSE,
             client_status |-> <<>>]

\* run_all_prechecks, lines 44-51: the locals before the first phase
NotStarted == [pc |-> "cluster", blocking_issues |-> <<>>, warnings |-> <<>>,
               results |-> <<>>, excluded_clients |-> <<>>,
               overall_status |-> "none", can_proceed |-> FALSE]

\* no precheck run is looked at
NoPrecheckRun ==
    /\ runner = NoRunner
    /\ precheck = NotStarted

\* the manager is connected to Redis
BusUp == bus = "up"

\* routes/executions.py get_execution_engine, lines 19-27: the engine, and
\* with it the executor and its command log, is made once; here it has served
\* no other execution
Executions == 1..MaxExecutions

OneExecution ==
    /\ xpc = [e \in Executions |-> "uncreated"]
    /\ shared_log = <<>>
    /\ logged = [e \in Executions |-> {}]
    /\ commands_json = [e \in Executions |-> <<>>]

\* common/models/execution.py ExecutionPhase, lines 24-33, in declaration
\* order
PhaseOrder == <<"init", "precheck", "prepare", "ramp_up", "steady_state",
                "ramp_down", "cleanup", "done">>

PhaseRank(p) == CHOOSE i \in 1..Len(PhaseOrder) : PhaseOrder[i] = p

\* a run phase that reports the phase of the prechecks
RunPhase_Precheck == "precheck"

\* _run_execution_phase, line 315: the phase the run reports
RunPhase == "steady_state"

\* what an SSHClient.run_command call has not given yet
NoSshResult == [exit_code |-> 0, stderr |-> "none", auth |-> "none"]

\* SSHClient: no command was asked for
NoSsh == ssh = [pc |-> "idle", password |-> FALSE, key |-> FALSE,
                sshpass |-> TRUE, raise_on_error |-> FALSE, remote |-> "ok",
                result |-> NoSshResult]

\* the keys of RedisClient._handlers: event types, and "*" for all events
EventTypes == {"execution.start", "execution.stop"}
HandlerKeys == EventTypes \cup {"*"}

\* RedisClient.__init__, line 35: no handler is registered, no message came
NoHub == hub = [handlers |-> [k \in HandlerKeys |-> <<>>], invoked |-> <<>>,
                last |-> "none", received |-> 0]

\* RedisClient.__init__, lines 33-34: no connection object, no call made yet;
\* `tested` records that a ping succeeded on the connection object held
NoConn == conn = [redis |-> "none", pubsub |-> "none", server |-> "up",
                  tested |-> FALSE, last |-> "none", pinged |-> FALSE,
                  calls |-> 0]

\* agent WorkloadExecutor.__init__, lines 24-34: nothing runs; 0 stands for
\* None as the current execution id; own_pause records that a pause naming
\* the current execution was handled since it started
NoAgent == agent = [is_running |-> FALSE, is_paused |-> FALSE,
                    stop_requested |-> FALSE, current |-> 0,
                    own_pause |-> FALSE,
                    process |-> "none", pc |-> "idle",
                    last |-> [kind |-> "none", id |-> 0], events |-> 0]

\* the statuses a worker's row can hold from earlier deployments
DeploymentStatuses ==
    {"pending", "connecting", "installing", "copying", "starting",
     "success", "failed"}

\* no deployment through the route has begun; the worker is in the clients
\* configuration or not, and its row holds what an earlier deployment left
NoProgress ==
    progress \in [pc : {"idle"}, stage : {1}, reported : {<<>>},
                  registered : BOOLEAN,
                  deployment_status : DeploymentStatuses,
                  client_status : {"offline", "online", "error"},
                  result : {"none"}]

\* no deployment through the route has begun, for a configured worker that
\* was never deployed to
IdleProgress ==
    progress = [pc |-> "idle", stage |-> 1, reported |-> <<>>,
                registered |-> TRUE, deployment_status |-> "pending",
                client_status |-> "offline", result |-> "none"]

\* nothing outside the engine is in progress
AuxIdle ==
    /\ NoSsh
    /\ NoHub
    /\ NoConn
    /\ NoAgent
    /\ IdleProgress

\* AgentDeployer.deploy_to_clients: no call was made
NoDeploy == deploy = [pc |-> "idle", clients |-> <<>>, results |-> <<>>,
                      final_results |-> <<>>]

\* routes/metrics.py get_metrics: no request was made
NoResponse == [outcome |-> "none", metrics |-> <<>>]

NoRead ==
    /\ query = [file |-> <<>>, start_time |-> 0, end_time |-> 0, limit |-> 1]
    /\ response = NoResponse

\* routes/executions.py create_execution, lines 65-91: the execution was
\* created from the stored definition of its workload
SnapshotTaken ==
    /\ workloads = <<cfg>>
    /\ snapshot = <<cfg>>

\* an engine that has no entry for the execution, no file of it, and a catalog
\* of n workers, with room for k control requests
Fresh(n, k) ==
    /\ started_at = "null"
    /\ completed_at = "null"
    /\ phase = "init"
    /\ active = FALSE
    /\ clients = <<>>
    /\ clients_repr = "dict"
    /\ excluded_clients = {}
    /\ stop_flags = "absent"
    /\ pause_flags = "absent"
    /\ report = "none"
    /\ selected_clients = <<>>
    /\ fio_failed = {}
    /\ failed_mounts = {}
    /\ local_clients = <<>>
    /\ results = <<>>
    /\ client_metrics = [w \in 1..n |-> <<>>]
    /\ aggregate = <<>>
    /\ exec_log = {}
    /\ command_log = <<>>
    /\ saved_command_log = <<>>
    /\ issued = {}
    /\ summary = NoSummary
    /\ published = {}
    /\ stop_seen = FALSE
    /\ stop_during = {}
    /\ pauseReq = "idle"
    /\ resumeReq = "idle"
    /\ stopReq = "idle"
    /\ budget = k
    /\ inventory = Catalog(n)
    /\ online = 1..n
    /\ up = Idle(0, {}, NoResult)
    /\ down = Idle(0, {}, NoResult)

\* the state after the route created the record and scheduled run_execution
\* for a catalog of n workers, with room for k control requests
Created(n, k) ==
    /\ status = "pending"
    /\ pc = "start"
    /\ Fresh(n, k)

Init ==
    /\ Created(NumWorkers, MaxSignals)
    /\ NoPrecheckRun
    /\ BusUp
    /\ cfg \in Configs(NumWorkers)
    /\ SnapshotTaken
    /\ OneExecution
    /\ NoRead
    /\ NoDeploy
    /\ AuxIdle

\* run_execution, lines 42-59: the task starts and registers the execution
RunExecutionStart ==
    /\ pc = "start"
    /\ active' = TRUE
    /\ clients' = <<>>
    /\ phase' = "init"
    /\ stop_flags' = "false"
    /\ pause_flags' = "false"
    /\ pc' = IF cfg.run_prechecks THEN "prechecks_status" ELSE "prepare_status"
    /\ UNCHANGED <<recordVars, routeVars, constVars, scaleVars, clients_repr,
                   excluded_clients, report, prepVars, runVars, fileVars,
                   cmdVars, published, stop_seen>>

\* _run_prechecks_phase, lines 106-110
RunPrechecksStatus ==
    /\ pc = "prechecks_status"
    /\ UpdateExecutionStatus("prechecks")
    /\ phase' = "precheck"
    /\ pc' = "prechecks_run"
    /\ UNCHANGED <<flagVars, routeVars, constVars, scaleVars, stateVars, report, prepVars,
                   runVars, fileVars, cmdVars, published, stop_seen>>

\* a _run_prechecks_phase without the raise of line 137
AfterReport_NoGate(can_proceed, excl) ==
    /\ excluded_clients' = excl
    /\ stop_seen' = (stop_flags = "true")
    /\ pc' = IF stop_flags = "true" THEN "handle_stopped" ELSE "prepare_status"

\* _run_prechecks_phase, lines 136-142, and the stop check of run_execution,
\* lines 61-63: what follows a report with the given can_proceed and
\* excluded_clients
AfterReport(can_proceed, excl) ==
    IF ~can_proceed
    THEN /\ pc' = "except"
         /\ UNCHANGED <<excluded_clients, stop_seen>>
    ELSE /\ excluded_clients' = excl
         /\ stop_seen' = (stop_flags = "true")
         /\ pc' = IF stop_flags = "true" THEN "handle_stopped"
                  ELSE "prepare_status"

\* _run_prechecks_phase, lines 116-142: the report comes back
RunPrechecksReport ==
    /\ pc = "prechecks_run"
    /\ \E can_proceed \in BOOLEAN, excl \in SUBSET Range(inventory) :
         /\ report' = IF can_proceed THEN "passed" ELSE "failed"
         /\ AfterReport(can_proceed, excl)
    /\ UNCHANGED <<recordVars, flagVars, routeVars, constVars, scaleVars, phase, active,
                   clients, clients_repr, prepVars, runVars, fileVars, cmdVars,
                   published>>

\* _run_prepare_phase, lines 153-157
RunPrepareStatus ==
    /\ pc = "prepare_status"
    /\ UpdateExecutionStatus("preparing")
    /\ phase' = "prepare"
    /\ pc' = "prepare_select"
    /\ UNCHANGED <<flagVars, routeVars, constVars, scaleVars, stateVars, report, prepVars,
                   runVars, fileVars, cmdVars, published, stop_seen>>

\* where _run_prepare_phase goes after the selection or the tool check
AfterFio == IF cfg.mount # "none" THEN "prepare_mount" ELSE "prepare_count"

\* _run_prepare_phase, lines 160-195: the inventory comes back, the selection
\* is computed and stored, and the tool fan-out is started
RunPrepareSelect ==
    /\ pc = "prepare_select"
    /\ LET available == Without(inventory, excluded_clients)
           sel == SelectClients(available, cfg.clients)
       IN IF sel = <<>>
          THEN /\ pc' = "except"
               /\ UNCHANGED <<clients, clients_repr, selected_clients, cmdVars>>
          ELSE /\ clients' = sel
               /\ clients_repr' = "dict"
               /\ selected_clients' = sel
               /\ IF cfg.tool = "fio"
                  THEN /\ pc' = "prepare_fio"
                       /\ command_log' = command_log \o LogAll("which_fio", sel)
                       /\ issued' = issued \cup {<<"which_fio", w>> : w \in Range(sel)}
                  ELSE /\ pc' = AfterFio
                       /\ UNCHANGED cmdVars
    /\ UNCHANGED <<recordVars, flagVars, routeVars, constVars, scaleVars, phase, active,
                   excluded_clients, report, fio_failed, failed_mounts, runVars,
                   fileVars, published, stop_seen>>

\* _run_prepare_phase, lines 197-208: what is left of the selection sel after
\* the workers of failed are dropped, and what becomes of state["clients"]
\* (cs), which line 207 does not touch
FioSurvivors(sel, failed) == Without(sel, failed)
ClientsAfterFio(cs, failed) == cs

\* _run_prepare_phase, lines 195-208: ensure_fio_on_clients comes back
RunPrepareFio ==
    /\ pc = "prepare_fio"
    /\ \E outcome \in [Range(selected_clients) -> FioOutcomes] :
         LET failed == {w \in Range(selected_clients) : outcome[w] = "failed"}
             installs == Without(selected_clients,
                                 {w \in Range(selected_clients) : outcome[w] = "present"})
         IN /\ fio_failed' = failed
            /\ selected_clients' = FioSurvivors(selected_clients, failed)
            /\ clients' = ClientsAfterFio(clients, failed)
            /\ command_log' = command_log \o LogAll("install_fio", installs)
            /\ issued' = issued \cup {<<"install_fio", w>> : w \in Range(installs)}
    /\ pc' = AfterFio
    /\ UNCHANGED <<recordVars, flagVars, routeVars, constVars, scaleVars, phase, active,
                   clients_repr, excluded_clients, report, failed_mounts,
                   runVars, fileVars, published, stop_seen>>

\* _run_prepare_phase, lines 256-261: state["clients"] after the mounts, cs
\* being its value before and sel the local selection
ClientsAfterMount(cs, sel, failed) ==
    IF failed # {} THEN Without(sel, failed) ELSE cs

\* _run_prepare_phase, lines 214-261: ceph-common is installed for cephfs,
\* the mount fan-out comes back and the workers whose mount failed are dropped
RunPrepareMount ==
    /\ pc = "prepare_mount"
    /\ \E failed \in SUBSET Range(selected_clients) :
         /\ failed_mounts' = failed
         /\ clients' = ClientsAfterMount(clients, selected_clients, failed)
    /\ LET installs == IF cfg.mount = "cephfs" THEN selected_clients ELSE <<>>
       IN /\ command_log' = command_log \o LogAll("install_ceph_common", installs)
                                        \o LogAll("mount", selected_clients)
          /\ issued' = issued \cup {<<"install_ceph_common", w>> : w \in Range(installs)}
                              \cup {<<"mount", w>> : w \in Range(selected_clients)}
    /\ pc' = "prepare_count"
    /\ UNCHANGED <<recordVars, flagVars, routeVars, constVars, scaleVars, phase, active,
                   clients_repr, excluded_clients, report, selected_clients,
                   fio_failed, runVars, fileVars, published, stop_seen>>

\* _run_prepare_phase, lines 263-267, and the stop check of run_execution,
\* lines 68-70
RunPrepareCount ==
    /\ pc = "prepare_count"
    /\ UpdateExecutionStatus("preparing")
    /\ stop_seen' = (stop_flags = "true")
    /\ pc' = IF stop_flags = "true" THEN "handle_stopped" ELSE "run_status"
    /\ UNCHANGED <<flagVars, routeVars, constVars, scaleVars, phase, stateVars, report,
                   prepVars, runVars, fileVars, cmdVars, published>>

\* _run_execution_phase, lines 311-347: the status is written, the
\* participants are read and the benchmark fan-out is started; the locals of
\* _run_prepare_phase are gone
RunExecutionStatus ==
    /\ pc = "run_status"
    /\ UpdateExecutionStatus("running")
    /\ phase' = RunPhase
    /\ local_clients' = clients
    /\ selected_clients' = <<>>
    /\ fio_failed' = {}
    /\ failed_mounts' = {}
    /\ IF clients = <<>>
       THEN /\ pc' = "except"
            /\ UNCHANGED cmdVars
       ELSE /\ pc' = "run_gather"
            /\ LET kind == IF cfg.tool = "fill_cluster" THEN "run_fill" ELSE "run_fio"
               IN /\ command_log' = command_log \o LogAll(kind, clients)
                  /\ issued' = issued \cup {<<kind, w>> : w \in Range(clients)}
    /\ UNCHANGED <<flagVars, routeVars, constVars, scaleVars, stateVars, report, results,
                   fileVars, published, stop_seen>>

\* a loop that stops at the first exception instead of the continue of line 361
Stored_UntilException(cs, res) ==
    {i \in 1..Len(cs) : /\ res[i][1] = "ok"
                        /\ \A j \in 1..(i - 1) : res[j][1] # "exception"}

\* the loop of _run_execution_phase, lines 355-384, over the results res of
\* the workers cs: the positions whose worker gets a per-worker sample
Stored(cs, res) == {i \in 1..Len(cs) : res[i][1] = "ok"}

\* lines 369 and 392: total_iops
TotalIops(cs, res) ==
    SumSeq([i \in 1..Len(cs) |-> IF i \in Stored(cs, res) THEN res[i][2] ELSE 0])

\* lines 376-381: the per-worker files after the loop
AppendClientMetrics(cm, cs, res) ==
    [w \in DOMAIN cm |->
        IF \E i \in Stored(cs, res) : cs[i] = w
        THEN Append(cm[w], res[CHOOSE i \in Stored(cs, res) : cs[i] = w][2])
        ELSE cm[w]]

\* lines 360 and 384: the workers a failure line is written for
FailureLines(cs, res) == {cs[i] : i \in (1..Len(cs)) \ Stored(cs, res)}

\* _run_execution_phase, lines 347-397: gather returns and the results are
\* processed
RunGather ==
    /\ pc = "run_gather"
    /\ \E res \in [1..Len(local_clients) -> RunResults] :
         /\ results' = res
         /\ client_metrics' = AppendClientMetrics(client_metrics, local_clients, res)
         /\ exec_log' = exec_log \cup FailureLines(local_clients, res)
         /\ aggregate' = Append(aggregate,
                                [iops |-> TotalIops(local_clients, res),
                                 clients |-> Len(local_clients)])
    /\ pc' = "run_final"
    /\ UNCHANGED <<recordVars, flagVars, routeVars, constVars, scaleVars, phase, stateVars,
                   report, prepVars, local_clients, saved_command_log, summary,
                   cmdVars, published, stop_seen>>

\* _run_execution_phase, lines 400-406, then _run_cleanup_phase, lines
\* 419-452: the final metrics are written, the command log is saved and the
\* unmount and cleanup fan-outs are started; the locals of
\* _run_execution_phase are gone
RunFinalStatus ==
    /\ pc = "run_final"
    /\ UpdateExecutionStatus("running")
    /\ saved_command_log' = IF command_log # <<>> THEN command_log
                            ELSE saved_command_log
    /\ command_log' = <<>>
    /\ phase' = "cleanup"
    /\ local_clients' = clients
    /\ results' = <<>>
    /\ issued' = issued
                 \cup (IF cfg.mount # "none"
                       THEN {<<"unmount", w>> : w \in Range(clients)}
                       ELSE {})
                 \cup {<<"cleanup", w>> : w \in Range(clients)}
    /\ pc' = "cleanup_wait"
    /\ UNCHANGED <<flagVars, routeVars, constVars, scaleVars, stateVars, report, prepVars,
                   client_metrics, aggregate, exec_log, summary, published,
                   stop_seen>>

\* a cleanup whose summary names the first participant only
RunCleanupPhase_FirstClient ==
    /\ pc = "cleanup_wait"
    /\ summary' = [saved |-> TRUE,
                   total_samples |-> Len(aggregate),
                   clients |-> Take(local_clients, 1),
                   peak_iops |-> MaxSeq([i \in 1..Len(aggregate) |-> aggregate[i].iops])]
    /\ phase' = "done"
    /\ local_clients' = <<>>
    /\ pc' = "complete_status"
    /\ UNCHANGED <<recordVars, flagVars, routeVars, constVars, scaleVars, stateVars,
                   report, prepVars, results, client_metrics, aggregate,
                   exec_log, saved_command_log, cmdVars, published, stop_seen>>

\* _run_cleanup_phase, lines 452-486: the cleanup fan-out comes back and the
\* summary is written
RunCleanupPhase ==
    /\ pc = "cleanup_wait"
    /\ summary' = [saved |-> TRUE,
                   total_samples |-> Len(aggregate),
                   clients |-> local_clients,
                   peak_iops |-> MaxSeq([i \in 1..Len(aggregate) |-> aggregate[i].iops])]
    /\ phase' = "done"
    /\ local_clients' = <<>>
    /\ pc' = "complete_status"
    /\ UNCHANGED <<recordVars, flagVars, routeVars, constVars, scaleVars, stateVars,
                   report, prepVars, results, client_metrics, aggregate,
                   exec_log, saved_command_log, cmdVars, published, stop_seen>>

\* run_execution, lines 78-81 and 94-95
RunCompleteStatus ==
    /\ pc = "complete_status"
    /\ UpdateExecutionStatus("completed")
    /\ CleanupExecution
    /\ pc' = "done"
    /\ UNCHANGED <<routeVars, constVars, scaleVars, phase, clients, clients_repr,
                   excluded_clients, report, prepVars, runVars, fileVars,
                   cmdVars, published, stop_seen>>

\* _handle_stopped, lines 490-501: the status is written; then one stop
\* event per member of state["clients"].  A member that prepare stored is a
\* dict, for which Event(target=...) raises, and publish raises when Redis
\* is not connected (redis_client.py, lines 75-76); the exception leaves
\* _handle_stopped for the handler of run_execution.
HandleStopped ==
    /\ pc = "handle_stopped"
    /\ UpdateExecutionStatus("cancelled")
    /\ IF clients # <<>> /\ (clients_repr = "dict" \/ bus = "down")
       THEN /\ pc' = "except"
            /\ UNCHANGED <<active, flagVars, published>>
       ELSE /\ published' = published \cup {<<"execution.stop", w>> : w \in Range(clients)}
            /\ CleanupExecution
            /\ pc' = "done"
    /\ UNCHANGED <<routeVars, constVars, scaleVars, phase, clients, clients_repr,
                   excluded_clients, report, prepVars, runVars, fileVars,
                   cmdVars, stop_seen>>

\* run_execution, lines 85-95: the exception handler and the finally clause
ExceptHandler ==
    /\ pc = "except"
    /\ UpdateExecutionStatus("failed")
    /\ CleanupExecution
    /\ pc' = "done"
    /\ UNCHANGED <<routeVars, constVars, scaleVars, phase, clients, clients_repr,
                   excluded_clients, report, prepVars, runVars, fileVars,
                   cmdVars, published, stop_seen>>

\* ------------------------------------------------------------ the routes
\* routes/executions.py stop_execution, lines 135-153: the record is read and
\* the request accepted
StopAccept ==
    /\ stopReq = "idle"
    /\ budget > 0
    /\ status \in {"running", "paused", "prechecks", "preparing"}
    /\ stopReq' = "accepted"
    /\ budget' = budget - 1
    /\ UNCHANGED <<recordVars, flagVars, engineVars, pauseReq, resumeReq,
                   stop_during>>

\* ExecutionEngine.stop_execution, line 520
StopExecution ==
    /\ stopReq = "accepted"
    /\ stop_flags' = "true"
    /\ stop_during' = IF pc \notin {"except", "done"}
                      THEN stop_during \cup {status} ELSE stop_during
    /\ stopReq' = "idle"
    /\ UNCHANGED <<recordVars, pause_flags, engineVars, pauseReq, resumeReq,
                   budget>>

\* routes/executions.py pause_execution, lines 167-180
PauseAccept ==
    /\ pauseReq = "idle"
    /\ budget > 0
    /\ status = "running"
    /\ pauseReq' = "accepted"
    /\ budget' = budget - 1
    /\ UNCHANGED <<recordVars, flagVars, engineVars, resumeReq, stopReq,
                   stop_during>>

\* ExecutionEngine.pause_execution, line 525, up to the await of line 526
PauseExecution ==
    /\ pauseReq = "accepted"
    /\ pause_flags' = "true"
    /\ pauseReq' = "writing"
    /\ UNCHANGED <<recordVars, stop_flags, engineVars, resumeReq, stopReq,
                   budget, stop_during>>

\* ExecutionEngine.pause_execution, lines 526-529
PauseWrite ==
    /\ pauseReq = "writing"
    /\ UpdateExecutionStatus("paused")
    /\ pauseReq' = "idle"
    /\ UNCHANGED <<flagVars, engineVars, resumeReq, stopReq, budget,
                   stop_during>>

\* routes/executions.py resume_execution, lines 194-207
ResumeAccept ==
    /\ resumeReq = "idle"
    /\ budget > 0
    /\ status = "paused"
    /\ resumeReq' = "accepted"
    /\ budget' = budget - 1
    /\ UNCHANGED <<recordVars, flagVars, engineVars, pauseReq, stopReq,
                   stop_during>>

\* ExecutionEngine.resume_execution, line 534, up to the await of line 535
ResumeExecution ==
    /\ resumeReq = "accepted"
    /\ pause_flags' = "false"
    /\ resumeReq' = "writing"
    /\ UNCHANGED <<recordVars, stop_flags, engineVars, pauseReq, stopReq,
                   budget, stop_during>>

\* ExecutionEngine.resume_execution, lines 535-538
ResumeWrite ==
    /\ resumeReq = "writing"
    /\ UpdateExecutionStatus("running")
    /\ resumeReq' = "idle"
    /\ UNCHANGED <<flagVars, engineVars, pauseReq, stopReq, budget,
                   stop_during>>

\* ------------------------------------------------------ specifications
\* a step of a run_execution task whose checkpoints (lines 61 and 68) find no
\* stop flag
RunSteps ==
    \/ RunExecutionStart
    \/ RunPrechecksStatus
    \/ RunPrechecksReport
    \/ RunPrepareStatus
    \/ RunPrepareSelect
    \/ RunPrepareFio
    \/ RunPrepareMount
    \/ RunPrepareCount
    \/ RunExecutionStatus
    \/ RunGather
    \/ RunFinalStatus
    \/ RunCleanupPhase
    \/ RunCompleteStatus
    \/ ExceptHandler

\* a step of the run_execution task
Engine == RunSteps \/ HandleStopped

\* a step of one of the control routes
Routes ==
    \/ StopAccept
    \/ StopExecution
    \/ PauseAccept
    \/ PauseExecution
    \/ PauseWrite
    \/ ResumeAccept
    \/ ResumeExecution
    \/ ResumeWrite

Next == Engine \/ Routes

Spec == Init /\ [][Next]_vars
\* run_execution with the stop route alone: the only route the store lets in
\* before the execution is running
StopRoute ==
    \/ StopAccept
    \/ StopExecution

NextStop == Engine \/ StopRoute

InitStop ==
    /\ Created(GateWorkers, GateSignals)
    /\ NoPrecheckRun
    /\ BusUp
    /\ cfg \in Configs(GateWorkers)
    /\ SnapshotTaken
    /\ OneExecution
    /\ NoRead
    /\ NoDeploy
    /\ AuxIdle

SpecStop == InitStop /\ [][NextStop]_vars

\* the continuations of the routes: a coroutine that was resumed runs to its
\* next await
RouteSteps ==
    \/ StopExecution
    \/ PauseExecution
    \/ PauseWrite
    \/ ResumeExecution
    \/ ResumeWrite

\* the event loop runs every task that is ready, and every awaited call returns
FairSpec == Init /\ [][Next]_vars /\ WF_vars(Engine) /\ WF_vars(RouteSteps)

\* ------------------------------------------------------------- scaling
\* scale_up and scale_down are called on an execution whose run fan-out is
\* being awaited.  The members of state["clients"] are the client dicts
\* _run_prepare_phase stored (clients_repr = "dict") or the id strings the
\* test-suite puts there and scale_up itself stores (clients_repr = "id").

\* current_clients[-count:]
LastN(s, n) == SubSeq(s, Len(s) - Min(n, Len(s)) + 1, Len(s))

\* list(a_set): the iteration order of a set of strings is the order of the
\* hashes, which differ from process to process
ListOfSet(S) == {s \in [1..Cardinality(S) -> S] : Range(s) = S}

\* scale_up, lines 556-560: online workers that are not participants
Available(cs) == Without(Only(inventory, online), Range(cs))

\* a scale_up without the slice of line 565
ToAdd_IgnoreCount(available, count, ids) ==
    IF ids # {} THEN Only(available, ids) ELSE available

\* scale_up, lines 562-565
ToAdd(available, count, ids) ==
    IF ids # {} THEN Only(available, ids) ELSE Take(available, count)

\* scale_down, lines 605-608, for participants stored as ids
ToRemove(current, count, ids) ==
    IF ids # {} THEN Only(Only(inventory, ids), Range(current))
    ELSE LastN(current, count)

\* the arguments of a scale request over the workers ws
ScaleCounts == 0..MaxCount
ScaleIds(ws) == SUBSET ws

\* scale_up, lines 548-553: the call looks the execution up and awaits
\* get_clients
ScaleUpCall ==
    /\ up.pc = "idle"
    /\ budget > 0
    /\ budget' = budget - 1
    /\ \E count \in ScaleCounts, ids \in ScaleIds(Range(inventory)) :
         /\ count = 0 \/ ids = {}
         /\ up' = IF ~active THEN Idle(count, ids, ErrorResult)
                  ELSE [Idle(count, ids, NoResult) EXCEPT !.pc = "get_clients"]
    /\ UNCHANGED <<recordVars, flagVars, pauseReq, resumeReq, stopReq,
                   stop_during, phase, pc, report, published, stop_seen,
                   constVars, down, stateVars, prepVars, runVars, fileVars,
                   cmdVars>>

\* scale_up, lines 584-590: the participants are replaced by list(set)
StoreScaleUp(members, added) ==
    /\ clients' \in ListOfSet(members)
    /\ clients_repr' = "id"
    /\ up' = Done(up, Returned(added, Cardinality(members)))

\* scale_up, lines 553-590: get_clients returns; set() of dicts raises
\* TypeError; else the workers to add are chosen and the first start event is
\* handed to the bus
ScaleUpRead ==
    /\ up.pc = "get_clients"
    /\ IF clients # <<>> /\ clients_repr = "dict"
       THEN /\ up' = Done(up, Raised)
            /\ UNCHANGED <<clients, clients_repr>>
       ELSE LET available == Available(clients)
                to_add == ToAdd(available, up.count, up.client_ids)
            IN IF up.client_ids = {} /\ up.count = 0
               THEN /\ up' = Done(up, ErrorResult)
                    /\ UNCHANGED <<clients, clients_repr>>
               ELSE IF to_add = <<>>
               THEN StoreScaleUp(Range(clients), <<>>)
               ELSE /\ up' = [up EXCEPT !.pc = "publish",
                                        !.prev = clients,
                                        !.available = available,
                                        !.current_clients = clients \o <<to_add[1]>>,
                                        !.todo = to_add,
                                        !.changed = <<to_add[1]>>]
                    /\ UNCHANGED <<clients, clients_repr>>
    /\ UNCHANGED <<recordVars, flagVars, routeVars, phase, pc, report,
                   published, stop_seen, constVars, down, active,
                   excluded_clients, prepVars, runVars, fileVars, cmdVars>>

\* scale_up, lines 568-590: publish_to_agent raises (Redis is not
\* connected) and scale_up is left, or it returns: the next worker is added,
\* or the participants are stored and the call returns
ScaleUpPublish ==
    /\ up.pc = "publish"
    /\ IF bus = "down"
       THEN /\ up' = Done(up, Raised)
            /\ UNCHANGED <<clients, clients_repr, published>>
       ELSE /\ published' = published
                     \cup {<<"execution.start", up.changed[Len(up.changed)]>>}
            /\ IF Len(up.changed) < Len(up.todo)
               THEN LET next == up.todo[Len(up.changed) + 1]
                    IN /\ up' = [up EXCEPT !.current_clients = Append(@, next),
                                           !.changed = Append(@, next)]
                       /\ UNCHANGED <<clients, clients_repr>>
               ELSE StoreScaleUp(Range(up.current_clients), up.changed)
    /\ UNCHANGED <<recordVars, flagVars, routeVars, phase, pc, report,
                   stop_seen, constVars, down, active, excluded_clients,
                   prepVars, runVars, fileVars, cmdVars>>

\* scale_down, lines 599-629: the call up to its first await.  A dict member
\* is equal to no id of client_ids, and Event(target=...) raises for it
ScaleDownCall ==
    /\ down.pc = "idle"
    /\ budget > 0
    /\ budget' = budget - 1
    /\ \E count \in ScaleCounts, ids \in ScaleIds(Range(inventory)) :
         /\ count = 0 \/ ids = {}
         /\ IF ~active \/ (count = 0 /\ ids = {})
            THEN /\ down' = Idle(count, ids, ErrorResult)
                 /\ UNCHANGED clients
            ELSE IF clients_repr = "dict"
            THEN /\ down' = Idle(count, ids,
                                 IF ids = {} /\ clients # <<>> THEN Raised
                                 ELSE Returned(<<>>, Len(clients)))
                 /\ UNCHANGED clients
            ELSE LET to_remove == ToRemove(clients, count, ids)
                 IN IF to_remove = <<>>
                    THEN /\ down' = Idle(count, ids, Returned(<<>>, Len(clients)))
                         /\ UNCHANGED clients
                    ELSE /\ down' = [Idle(count, ids, NoResult) EXCEPT
                                        !.pc = "publish",
                                        !.prev = clients,
                                        !.current_clients = Without(clients, {to_remove[1]}),
                                        !.todo = to_remove,
                                        !.changed = <<to_remove[1]>>]
                         /\ UNCHANGED clients
    /\ UNCHANGED <<recordVars, flagVars, pauseReq, resumeReq, stopReq,
                   stop_during, phase, pc, report, published, stop_seen,
                   constVars, up, active, clients_repr, excluded_clients,
                   prepVars, runVars, fileVars, cmdVars>>

\* scale_down, lines 612-629: publish_to_agent raises (Redis is not
\* connected) and scale_down is left, or it returns: the next worker is
\* removed, or the participants are stored and the call returns
ScaleDownPublish ==
    /\ down.pc = "publish"
    /\ IF bus = "down"
       THEN /\ down' = Idle(down.count, down.client_ids, Raised)
            /\ UNCHANGED <<clients, published>>
       ELSE /\ published' = published
                     \cup {<<"execution.stop", down.changed[Len(down.changed)]>>}
            /\ IF Len(down.changed) < Len(down.todo)
               THEN LET next == down.todo[Len(down.changed) + 1]
                    IN /\ down' = [down EXCEPT !.current_clients = Without(@, {next}),
                                               !.changed = Append(@, next)]
                       /\ UNCHANGED clients
               ELSE /\ clients' = down.current_clients
                    /\ down' = Idle(down.count, down.client_ids,
                                    Returned(down.changed, Len(down.current_clients)))
    /\ UNCHANGED <<recordVars, flagVars, routeVars, phase, pc, report,
                   stop_seen, constVars, up, active, clients_repr,
                   excluded_clients, prepVars, runVars, fileVars, cmdVars>>

\* a scale route that lets every status in
ScaleAllowed_Any(s) == TRUE

\* routes/executions.py scale_execution, lines 229-233: the status check
ScaleAllowed(s) == s = "running"

\* routes/executions.py scale_execution, lines 221-222: an "add" request
\* arrives and the record is read
ScaleRouteRead ==
    /\ up.pc = "idle"
    /\ budget > 0
    /\ budget' = budget - 1
    /\ \E count \in ScaleCounts, ids \in ScaleIds(Range(inventory)) :
         /\ count = 0 \/ ids = {}
         /\ up' = [Idle(count, ids, NoResult) EXCEPT !.pc = "route", !.at = status]
    /\ UNCHANGED <<recordVars, flagVars, pauseReq, resumeReq, stopReq,
                   stop_during, phase, pc, report, published, stop_seen,
                   constVars, down, stateVars, prepVars, runVars, fileVars,
                   cmdVars>>

\* routes/executions.py scale_execution, lines 224-242, and scale_up, lines
\* 548-553: the status read is checked and scale_up is called, which looks
\* the execution up and awaits get_clients
ScaleRouteCall ==
    /\ up.pc = "route"
    /\ up' = IF ~ScaleAllowed(up.at) THEN Done(up, Rejected)
             ELSE IF ~active THEN Done(up, ErrorResult)
             ELSE [up EXCEPT !.pc = "get_clients"]
    /\ UNCHANGED <<recordVars, flagVars, routeVars, phase, pc, report,
                   published, stop_seen, constVars, down, stateVars, prepVars,
                   runVars, fileVars, cmdVars>>

\* the run fan-out of an execution is being awaited: the participants are
\* the workers of ids, stored as dicts or as ids
Running(n, k, ids, repr) ==
    /\ status = "running"
    /\ started_at = "set"
    /\ completed_at = "null"
    /\ phase = "steady_state"
    /\ pc = "run_gather"
    /\ active = TRUE
    /\ clients = Only(Catalog(n), ids)
    /\ clients_repr = repr
    /\ excluded_clients = {}
    /\ stop_flags = "false"
    /\ pause_flags = "false"
    /\ cfg = [run_prechecks |-> FALSE,
              clients |-> [mode |-> "specific", count |-> 0, client_ids |-> ids],
              tool |-> "fio", mount |-> "none"]
    /\ report = "none"
    /\ selected_clients = <<>>
    /\ fio_failed = {}
    /\ failed_mounts = {}
    /\ local_clients = clients
    /\ results = <<>>
    /\ client_metrics = [w \in 1..n |-> <<>>]
    /\ aggregate = <<>>
    /\ exec_log = {}
    /\ command_log = LogAll("run_fio", clients)
    /\ issued = {<<"run_fio", w>> : w \in ids}
    /\ saved_command_log = <<>>
    /\ summary = NoSummary
    /\ published = {}
    /\ stop_seen = FALSE
    /\ stop_during = {}
    /\ pauseReq = "idle"
    /\ resumeReq = "idle"
    /\ stopReq = "idle"
    /\ budget = k
    /\ inventory = Catalog(n)
    /\ up = Idle(0, {}, NoResult)
    /\ down = Idle(0, {}, NoResult)
    /\ NoPrecheckRun

InitScale ==
    /\ \E ids \in (SUBSET (1..ScaleWorkers)) \ {{}}, repr \in {"dict", "id"} :
         Running(ScaleWorkers, MaxCalls, ids, repr)
    /\ online \in SUBSET (1..ScaleWorkers)
    /\ BusUp
    /\ SnapshotTaken
    /\ OneExecution
    /\ NoRead
    /\ NoDeploy
    /\ AuxIdle

NextScale ==
    \/ ScaleUpCall
    \/ ScaleUpRead
    \/ ScaleUpPublish
    \/ ScaleDownCall
    \/ ScaleDownPublish

SpecScale == InitScale /\ [][NextScale]_vars

\* the rest of run_execution from the awaited run fan-out on, with scale_down
\* calls on the engine entry; every awaited call returns
RunToEnd ==
    \/ RunGather
    \/ RunFinalStatus
    \/ RunCleanupPhase
    \/ RunCompleteStatus

ScaleDown ==
    \/ ScaleDownCall
    \/ ScaleDownPublish

NextDrain == RunToEnd \/ ScaleDown

SpecDrain == InitScale /\ [][NextDrain]_vars /\ WF_vars(RunToEnd) /\ WF_vars(ScaleDown)

\* run_execution with the pause route and "add" requests to the scale route,
\* for a fio workload that selects every worker, on block storage or on a
\* cephfs mount
PauseRoute ==
    \/ PauseAccept
    \/ PauseExecution
    \/ PauseWrite

ScaleUpRoute ==
    \/ ScaleRouteRead
    \/ ScaleRouteCall
    \/ ScaleUpRead
    \/ ScaleUpPublish

InitScaleRoute ==
    /\ Created(RouteWorkers, RouteSignals)
    /\ NoPrecheckRun
    /\ BusUp
    /\ cfg \in {c \in Configs(RouteWorkers) :
                  /\ c.tool = "fio"
                  /\ c.mount \in {"none", "cephfs"}
                  /\ c.clients.mode = "all"}
    /\ SnapshotTaken
    /\ OneExecution
    /\ NoRead
    /\ NoDeploy
    /\ AuxIdle

\* nobody stops the execution
NextScaleRoute == RunSteps \/ PauseRoute \/ ScaleUpRoute

SpecScaleRoute == InitScaleRoute /\ [][NextScaleRoute]_vars

\* ------------------------------------------------------------- metrics
\* what _parse_fio_results returns (workload_executor.py, lines 711-727): the
\* totals of one worker, bandwidth and latency in whole units
FioMetrics == [iops : 1..MaxIops, bw_mbps : 0..MaxBw, lat_us : 0..MaxLat]

\* what one task of the run fan-out returns, with the whole metrics dict
FioResults == {<<"exception", 0>>, <<"failed", 0>>, <<"empty", 0>>}
              \cup {<<"ok", m>> : m \in FioMetrics}

\* the totals of a loop that leaves at the first exception
TotalOver_UntilException(cs, res, field) ==
    SumSeq([i \in 1..Len(cs) |->
               IF i \in Stored_UntilException(cs, res) THEN res[i][2][field] ELSE 0])

\* lines 368-370: total_iops and total_throughput, the sum of one field over
\* the results that pass "if success and metrics"
TotalOver(cs, res, field) ==
    SumSeq([i \in 1..Len(cs) |->
               IF i \in Stored(cs, res) THEN res[i][2][field] ELSE 0])

\* lines 371-373 and 387: total_latency / latency_count over the results whose
\* lat_us.avg is positive, kept as the fraction num / den; 0 when there is none
AvgLatency(cs, res) ==
    LET counted == {i \in Stored(cs, res) : res[i][2].lat_us > 0}
        total == SumSeq([i \in 1..Len(cs) |->
                            IF i \in counted THEN res[i][2].lat_us ELSE 0])
    IN  IF counted # {} THEN [num |-> total, den |-> Cardinality(counted)]
        ELSE [num |-> 0, den |-> 1]

\* lines 390-396: aggregate_metrics
AggregateMetrics(cs, res) ==
    [iops |-> TotalOver(cs, res, "iops"),
     bw_mbps |-> TotalOver(cs, res, "bw_mbps"),
     lat_us |-> AvgLatency(cs, res),
     clients |-> Len(cs)]

\* _run_execution_phase, lines 347-397, with the whole metrics dict of every
\* worker: gather returns, the per-worker samples and the aggregate sample are
\* appended
RunGatherMetrics ==
    /\ pc = "run_gather"
    /\ \E res \in [1..Len(local_clients) -> FioResults] :
         /\ results' = res
         /\ client_metrics' = AppendClientMetrics(client_metrics, local_clients, res)
         /\ exec_log' = exec_log \cup FailureLines(local_clients, res)
         /\ aggregate' = Append(aggregate, AggregateMetrics(local_clients, res))
    /\ pc' = "run_final"
    /\ UNCHANGED <<recordVars, flagVars, routeVars, constVars, scaleVars, phase, stateVars,
                   report, prepVars, local_clients, saved_command_log, summary,
                   cmdVars, published, stop_seen>>

InitMetrics ==
    /\ \E ids \in (SUBSET (1..MetricWorkers)) \ {{}} :
         Running(MetricWorkers, 0, ids, "dict")
    /\ online = 1..MetricWorkers
    /\ BusUp
    /\ SnapshotTaken
    /\ OneExecution
    /\ NoRead
    /\ NoDeploy
    /\ AuxIdle

SpecMetrics == InitMetrics /\ [][RunGatherMetrics]_vars

\* ----------------------------------------------------------- prechecks
\* the lists of at most n members of S
SeqsUpTo(S, n) == UNION {[1..k -> S] : k \in 0..n}

\* what the checks of CephHealthChecker return (ceph.py, lines 257-477): a
\* passed check of severity info or warning, or a critical check that did not
\* pass
CheckResults == {[passed |-> TRUE, severity |-> "info"],
                 [passed |-> TRUE, severity |-> "warning"],
                 [passed |-> FALSE, severity |-> "critical"]}

\* a CustomCommandConfig with what running it gives: success is
\* "returncode == expected_exit_code", FALSE as well for a timeout or an
\* exception (custom_commands.py, lines 107-141)
CommandOutcomes == [blocking : BOOLEAN, success : BOOLEAN]

\* ClientStatus of a checked worker (connectivity.py, lines 214-234): online,
\* error when the agent does not run or an error was recorded, unreachable or
\* offline when the connection raised
ClientStatuses == {"online", "error", "offline", "unreachable"}

\* PrecheckConfig.min_healthy_clients, its default and least value
min_healthy_clients == 1

\* the runners of n workers: the cluster phase is skipped, or the cluster
\* cannot be queried, or it answers with its checks
Runners(n) ==
    {r \in [check_cluster : BOOLEAN, reachable : BOOLEAN,
            checks : SeqsUpTo(CheckResults, MaxChecks),
            custom_commands : SeqsUpTo(CommandOutcomes, MaxCommands),
            check_clients : BOOLEAN,
            client_status : SeqsUpTo(ClientStatuses, n)] :
        /\ ~r.check_cluster => (r.reachable /\ r.checks = <<>>)
        /\ ~r.reachable => r.checks = <<>>
        /\ (r.check_cluster /\ r.reachable) => r.checks # <<>>}

\* the positions of s whose member is one of wanted, in order
Positions(s, wanted) ==
    SelectSeq([i \in 1..Len(s) |-> i], LAMBDA j : s[j] \in wanted)

\* the issue lines "[tag] ..." of the members at the positions
Lines(tag, positions) == [i \in 1..Len(positions) |-> <<tag, positions[i]>>]

\* run_all_prechecks, lines 69-70: the check is a blocking issue
NotPassed(check) == ~check.passed

\* run_all_prechecks, lines 69-72: the check is a warning
PassedWithWarning(check) == check.passed /\ check.severity = "warning"

\* run_all_prechecks, lines 53-76: the cluster phase
PrecheckCluster ==
    /\ precheck.pc = "cluster"
    /\ LET blocking ==
            IF ~runner.check_cluster THEN <<>>
            ELSE IF ~runner.reachable THEN <<<<"Cluster", "Connection failed">>>>
            ELSE Lines("Cluster", Positions(runner.checks, {c \in CheckResults : NotPassed(c)}))
           warned ==
            IF ~runner.check_cluster \/ ~runner.reachable THEN <<>>
            ELSE Lines("Cluster", Positions(runner.checks,
                                          {c \in CheckResults : PassedWithWarning(c)}))
       IN precheck' = [precheck EXCEPT
                         !.blocking_issues = @ \o blocking,
                         !.warnings = @ \o warned,
                         !.pc = IF runner.custom_commands # <<>> THEN "commands"
                                ELSE "clients"]
    /\ UNCHANGED <<recordVars, flagVars, routeVars, phase, pc, report, published,
                   stop_seen, cfg, inventory, online, bus, snapVars,
                   engineSetVars, readVars, deploy, auxVars, runner,
                   scaleVars,
                   stateVars, prepVars, runVars, fileVars, cmdVars>>

\* a list that goes on after every command
StopsList_Never(cmd, result) == FALSE

\* run_multiple, lines 154-157: the command ends the list
StopsList(cmd, result) == cmd.blocking /\ ~result.success

\* run_multiple, lines 149-157: one turn of the loop, the next command of the
\* list is run and its result is appended
RunCommand ==
    /\ precheck.pc = "commands"
    /\ LET i == Len(precheck.results) + 1
           cmd == runner.custom_commands[i]
           result == [command |-> i, success |-> cmd.success,
                      blocking |-> cmd.blocking]
       IN precheck' = [precheck EXCEPT
                         !.results = Append(@, result),
                         !.pc = IF StopsList(cmd, result)
                                   \/ i = Len(runner.custom_commands)
                                THEN "collect" ELSE "commands"]
    /\ UNCHANGED <<recordVars, flagVars, routeVars, phase, pc, report, published,
                   stop_seen, cfg, inventory, online, bus, snapVars,
                   engineSetVars, readVars, deploy, auxVars, runner,
                   scaleVars,
                   stateVars, prepVars, runVars, fileVars, cmdVars>>

\* a report in which every failed command blocks
Blocks_AnyFailure(result) == ~result.success

\* run_all_prechecks, line 97: the result is a blocking issue
Blocks(result) == ~result.success /\ result.blocking

\* run_all_prechecks, lines 92-98: run_multiple has returned
CollectCommands ==
    /\ precheck.pc = "collect"
    /\ LET failed == SelectSeq(precheck.results, Blocks)
       IN precheck' = [precheck EXCEPT
                         !.blocking_issues =
                             @ \o Lines("Command", [i \in 1..Len(failed) |-> failed[i].command]),
                         !.pc = "clients"]
    /\ UNCHANGED <<recordVars, flagVars, routeVars, phase, pc, report, published,
                   stop_seen, cfg, inventory, online, bus, snapVars,
                   engineSetVars, readVars, deploy, auxVars, runner,
                   scaleVars,
                   stateVars, prepVars, runVars, fileVars, cmdVars>>

\* run_all_prechecks, lines 100-147: the worker phase
PrecheckClients ==
    /\ precheck.pc = "clients"
    /\ LET checked == IF runner.check_clients THEN runner.client_status ELSE <<>>
           off == Positions(checked, ClientStatuses \ {"online"})
       IN precheck' = [precheck EXCEPT
                         !.excluded_clients = @ \o off,
                         !.warnings = @ \o Lines("Client", off),
                         !.pc = "verdict"]
    /\ UNCHANGED <<recordVars, flagVars, routeVars, phase, pc, report, published,
                   stop_seen, cfg, inventory, online, bus, snapVars,
                   engineSetVars, readVars, deploy, auxVars, runner,
                   scaleVars,
                   stateVars, prepVars, runVars, fileVars, cmdVars>>

\* run_all_prechecks, lines 160-171: overall_status
OverallStatus(blocking_issues, warnings) ==
    IF blocking_issues # <<>> THEN "failed"
    ELSE IF warnings # <<>> THEN "passed_with_warnings"
    ELSE "passed"

\* run_all_prechecks, lines 155-193: the report
PrecheckVerdict ==
    /\ precheck.pc = "verdict"
    /\ precheck' = [precheck EXCEPT
                      !.overall_status = OverallStatus(precheck.blocking_issues,
                                                       precheck.warnings),
                      !.can_proceed = (precheck.blocking_issues = <<>>),
                      !.pc = "done"]
    /\ UNCHANGED <<recordVars, flagVars, routeVars, phase, pc, report, published,
                   stop_seen, cfg, inventory, online, bus, snapVars,
                   engineSetVars, readVars, deploy, auxVars, runner,
                   scaleVars,
                   stateVars, prepVars, runVars, fileVars, cmdVars>>

InitPrechecks ==
    /\ Created(PreWorkers, 0)
    /\ cfg = [run_prechecks |-> TRUE,
              clients |-> [mode |-> "all", count |-> 0, client_ids |-> {}],
              tool |-> "fio", mount |-> "none"]
    /\ runner \in Runners(PreWorkers)
    /\ precheck = NotStarted
    /\ BusUp
    /\ SnapshotTaken
    /\ OneExecution
    /\ NoRead
    /\ NoDeploy
    /\ AuxIdle

NextPrechecks ==
    \/ PrecheckCluster
    \/ RunCommand
    \/ CollectCommands
    \/ PrecheckClients
    \/ PrecheckVerdict

SpecPrechecks == InitPrechecks /\ [][NextPrechecks]_vars

\* ------------------------------------------------------------ the bus
\* an execution that can be stopped, or a running one that can be scaled,
\* with Redis connected or not
InitBus ==
    /\ bus \in {"up", "down"}
    /\ NoPrecheckRun
    /\ \/ /\ Created(GateWorkers, GateSignals)
          /\ cfg \in {c \in Configs(GateWorkers) : c.clients.mode = "all"}
       \/ /\ \E ids \in (SUBSET (1..ScaleWorkers)) \ {{}}, repr \in {"dict", "id"} :
               Running(ScaleWorkers, MaxCalls, ids, repr)
          /\ online \in SUBSET (1..ScaleWorkers)
    /\ SnapshotTaken
    /\ OneExecution
    /\ NoRead
    /\ NoDeploy
    /\ AuxIdle

NextBus == Engine \/ StopRoute \/ NextScale

SpecBus == InitBus /\ [][NextBus]_vars

\* -------------------------------------------------------- the signals
ResumeRoute == ResumeAccept \/ ResumeExecution \/ ResumeWrite

\* a running execution of one participant and the pause and resume requests
\* it receives
InitSignals ==
    /\ Running(1, SignalCalls, {1}, "dict")
    /\ online = {1}
    /\ BusUp
    /\ SnapshotTaken
    /\ OneExecution
    /\ NoRead
    /\ NoDeploy
    /\ AuxIdle

NextSignals == RunToEnd \/ PauseRoute \/ ResumeRoute

SpecSignals == InitSignals /\ [][NextSignals]_vars

\* ------------------------------------------------------- the snapshot
\* the definitions a workload file can hold
WorkloadDefs == {c \in Configs(SnapWorkers) : c.clients.mode = "all"}

\* no execution yet, and no configuration handed to an engine
NoConfig == [run_prechecks |-> FALSE,
             clients |-> [mode |-> "all", count |-> 0, client_ids |-> {}],
             tool |-> "none", mount |-> "none"]

\* routes/executions.py create_execution, lines 56-107, and
\* DataStore.create_execution, lines 415-458: the definition is loaded from
\* the workload file, dumped into config.yaml, the record is inserted and
\* run_execution is scheduled with the loaded dict
CreateExecution ==
    /\ pc = "uncreated"
    /\ IF workloads = <<>>
       THEN /\ pc' = "not_found"
            /\ UNCHANGED <<status, cfg, snapshot>>
       ELSE /\ snapshot' = workloads
            /\ cfg' = workloads[1]
            /\ status' = "pending"
            /\ pc' = "start"
    /\ UNCHANGED <<started_at, completed_at, flagVars, routeVars, phase, report,
                   published, stop_seen, inventory, online, bus, precheckVars,
                   engineSetVars, readVars, deploy, auxVars, workloads, scaleVars, stateVars, prepVars, runVars,
                   fileVars, cmdVars>>

\* a save that reaches into the configuration of the engine
SaveWorkload_Shared ==
    /\ \E c \in WorkloadDefs :
         /\ workloads' = <<c>>
         /\ cfg' = IF snapshot # <<>> THEN c ELSE cfg
    /\ UNCHANGED <<recordVars, flagVars, routeVars, phase, pc, report, published,
                   stop_seen, inventory, online, bus, precheckVars, snapshot,
                   engineSetVars, readVars, deploy, auxVars,
                   scaleVars, stateVars, prepVars, runVars, fileVars, cmdVars>>

\* DataStore.save_workload, lines 387-401: the workload file is written
SaveWorkload ==
    /\ \E c \in WorkloadDefs :
         /\ workloads' = <<c>>
         /\ cfg' = cfg
    /\ UNCHANGED <<recordVars, flagVars, routeVars, phase, pc, report, published,
                   stop_seen, inventory, online, bus, precheckVars, snapshot,
                   engineSetVars, readVars, deploy, auxVars,
                   scaleVars, stateVars, prepVars, runVars, fileVars, cmdVars>>

\* DataStore.delete_workload, lines 403-411: the workload file is removed
DeleteWorkload ==
    /\ workloads # <<>>
    /\ workloads' = <<>>
    /\ UNCHANGED <<recordVars, flagVars, routeVars, phase, pc, report, published,
                   stop_seen, cfg, inventory, online, bus, precheckVars,
                   engineSetVars, readVars, deploy, auxVars, snapshot, scaleVars, stateVars, prepVars, runVars, fileVars,
                   cmdVars>>

InitSnapshot ==
    /\ status = "none"
    /\ pc = "uncreated"
    /\ Fresh(SnapWorkers, 0)
    /\ cfg = NoConfig
    /\ workloads \in {<<>>} \cup {<<c>> : c \in WorkloadDefs}
    /\ snapshot = <<>>
    /\ NoPrecheckRun
    /\ BusUp
    /\ OneExecution
    /\ NoRead
    /\ NoDeploy
    /\ AuxIdle

NextSnapshot == CreateExecution \/ SaveWorkload \/ DeleteWorkload \/ RunSteps

SpecSnapshot == InitSnapshot /\ [][NextSnapshot]_vars

\* ------------------------------------- several executions on one engine
\* everything but the engine's executions stays as it is
EngineSetFrame ==
    UNCHANGED <<mainVars, snapVars, readVars, deploy, auxVars>>

\* WorkloadExecutor.log_command, lines 22-30, called for execution e
LogCommand(e, kind) ==
    /\ shared_log' = Append(shared_log, <<e, kind>>)
    /\ logged' = [logged EXCEPT ![e] = @ \cup {kind}]

\* routes/executions.py create_execution, lines 97-104: run_execution is
\* scheduled on the engine of get_execution_engine
StartExecution(e) ==
    /\ xpc[e] = "uncreated"
    /\ xpc' = [xpc EXCEPT ![e] = "prepare"]
    /\ UNCHANGED <<shared_log, logged, commands_json>>
    /\ EngineSetFrame

\* _run_prepare_phase, lines 191-208: ensure_fio_installed logs its check
\* for the selected workers
PrepareExecution(e) ==
    /\ xpc[e] = "prepare"
    /\ LogCommand(e, "which_fio")
    /\ xpc' = [xpc EXCEPT ![e] = "checkpoint"]
    /\ UNCHANGED commands_json
    /\ EngineSetFrame

\* run_execution, lines 68-70: the stop flag is looked at after prepare
StopCheckpoint(e) ==
    /\ xpc[e] = "checkpoint"
    /\ \E stopped \in BOOLEAN :
         xpc' = [xpc EXCEPT ![e] = IF stopped THEN "cancelled" ELSE "run"]
    /\ UNCHANGED <<shared_log, logged, commands_json>>
    /\ EngineSetFrame

\* _run_execution_phase, lines 340-347: run_fio logs the benchmark command
RunExecution(e) ==
    /\ xpc[e] = "run"
    /\ LogCommand(e, "run_fio")
    /\ xpc' = [xpc EXCEPT ![e] = "cleanup"]
    /\ UNCHANGED commands_json
    /\ EngineSetFrame

\* _run_cleanup_phase, lines 418-422: a non-empty command log is written to
\* commands.json of the execution and cleared
SaveCommandLog(e) ==
    /\ xpc[e] = "cleanup"
    /\ IF shared_log # <<>>
       THEN /\ commands_json' = [commands_json EXCEPT ![e] = shared_log]
            /\ shared_log' = <<>>
       ELSE UNCHANGED <<commands_json, shared_log>>
    /\ xpc' = [xpc EXCEPT ![e] = "completed"]
    /\ UNCHANGED logged
    /\ EngineSetFrame

InitEngineSet ==
    /\ Created(1, 0)
    /\ cfg \in {c \in Configs(1) : c.clients.mode = "all" /\ c.tool = "fio"}
    /\ NoPrecheckRun
    /\ BusUp
    /\ SnapshotTaken
    /\ OneExecution
    /\ NoRead
    /\ NoDeploy
    /\ AuxIdle

NextEngineSet ==
    \E e \in Executions :
        \/ StartExecution(e)
        \/ PrepareExecution(e)
        \/ StopCheckpoint(e)
        \/ RunExecution(e)
        \/ SaveCommandLog(e)

SpecEngineSet == InitEngineSet /\ [][NextEngineSet]_vars

\* ------------------------------------------------------ reading metrics
\* DataStore.read_metrics, lines 544-572: the lines of aggregate.jsonl whose
\* timestamp is inside the window, in file order; 0 stands for no bound
ReadMetrics(file, start_time, end_time) ==
    SelectSeq(file, LAMBDA ts : /\ ~(start_time # 0 /\ ts < start_time)
                                /\ ~(end_time # 0 /\ ts > end_time))

\* metrics[::step], for step > 0
Strided(s, step) ==
    [k \in 1..((Len(s) + step - 1) \div step) |-> s[(k - 1) * step + 1]]

\* routes/metrics.py get_metrics, lines 43-45: metrics[::step][:limit]
Subsample(s, limit) ==
    LET step == Len(s) \div limit
    IN  Take(Strided(s, step), limit)

\* routes/metrics.py get_metrics, lines 16-53; with limit 0 and a non-empty
\* window, len(metrics) // limit raises ZeroDivisionError
GetMetrics ==
    /\ response.outcome = "none"
    /\ LET metrics == ReadMetrics(query.file, query.start_time, query.end_time)
       IN  response' =
             IF Len(metrics) > query.limit
             THEN IF query.limit = 0
                  THEN [outcome |-> "raised", metrics |-> <<>>]
                  ELSE [outcome |-> "ok", metrics |-> Subsample(metrics, query.limit)]
             ELSE [outcome |-> "ok", metrics |-> metrics]
    /\ UNCHANGED <<mainVars, snapVars, engineSetVars, query, deploy, auxVars>>

\* aggregate.jsonl with n samples appended in time order: the timestamps 1..n
InitRead ==
    /\ Created(1, 0)
    /\ cfg \in {c \in Configs(1) : c.clients.mode = "all" /\ c.tool = "fio"
                                    /\ ~c.run_prechecks /\ c.mount = "none"}
    /\ NoPrecheckRun
    /\ BusUp
    /\ SnapshotTaken
    /\ OneExecution
    /\ \E n \in 0..MaxSamples :
         query \in [file : {[i \in 1..n |-> i]}, start_time : 0..n,
                    end_time : 0..n, limit : 0..MaxLimit]
    /\ response = NoResponse
    /\ NoDeploy
    /\ AuxIdle

NextRead == GetMetrics

SpecRead == InitRead /\ [][NextRead]_vars

\* ------------------------------------------------------ agent deployment
\* the ways deploy_agent ends, lines 188-326: one of its failed returns, its
\* successful return, or an exception
DeployOutcomes == {"ssh_failed", "setup_failed", "copy_failed", "start_failed",
                   "not_running", "success", "exception"}

\* a task of the fan-out that has not finished
Pending == [kind |-> "pending", client_id |-> 0, status |-> "pending",
            message |-> "none"]

\* deploy_agent, lines 168-326: what the task of worker w leaves in its slot
\* of gather when it ends as o
DeployAgentResult(w, o) ==
    IF o = "exception"
    THEN [kind |-> "exception", client_id |-> 0, status |-> "none",
          message |-> o]
    ELSE [kind |-> "result", client_id |-> w,
          status |-> IF o = "success" THEN "success" ELSE "failed",
          message |-> o]

\* a conversion that leaves out the slots holding an exception
FinalResults_DropExceptions(clients_in, results_in) ==
    LET kept == SelectSeq([i \in 1..Len(results_in) |-> i],
                          LAMBDA i : results_in[i].kind # "exception")
    IN  [k \in 1..Len(kept) |-> results_in[kept[k]]]

\* deploy_to_clients, lines 350-362: exceptions become failed results of the
\* worker at the same position
FinalResults(clients_in, results_in) ==
    [i \in 1..Len(results_in) |->
        IF results_in[i].kind = "exception"
        THEN [kind |-> "result", client_id |-> clients_in[i], status |-> "failed",
              message |-> results_in[i].message]
        ELSE results_in[i]]

\* the lists of distinct workers out of 1..n
WorkerLists(n) ==
    {s \in SeqsUpTo(1..n, n) : \A i, j \in 1..Len(s) : i # j => s[i] # s[j]}

\* deploy_to_clients, lines 334-348: one task per worker of the list
DeployToClients ==
    /\ deploy.pc = "idle"
    /\ \E cs \in WorkerLists(DeployWorkers) :
         deploy' = [pc |-> "gather", clients |-> cs,
                    results |-> [i \in 1..Len(cs) |-> Pending],
                    final_results |-> <<>>]
    /\ UNCHANGED <<mainVars, snapVars, engineSetVars, readVars, auxVars>>

\* deploy_agent, lines 168-326: the task at some position ends
DeployAgent ==
    /\ deploy.pc = "gather"
    /\ \E i \in 1..Len(deploy.clients), o \in DeployOutcomes :
         /\ deploy.results[i] = Pending
         /\ deploy' = [deploy EXCEPT
                          !.results[i] = DeployAgentResult(deploy.clients[i], o)]
    /\ UNCHANGED <<mainVars, snapVars, engineSetVars, readVars, auxVars>>

\* deploy_to_clients, lines 348-364: gather returns when every task has
\* ended, and the results are converted and returned
DeployReturn ==
    /\ deploy.pc = "gather"
    /\ \A i \in 1..Len(deploy.clients) : deploy.results[i] # Pending
    /\ deploy' = [deploy EXCEPT
                     !.pc = "returned",
                     !.final_results = FinalResults(deploy.clients, deploy.results)]
    /\ UNCHANGED <<mainVars, snapVars, engineSetVars, readVars, auxVars>>

InitDeploy ==
    /\ Created(1, 0)
    /\ cfg \in {c \in Configs(1) : c.clients.mode = "all" /\ c.tool = "fio"
                                    /\ ~c.run_prechecks /\ c.mount = "none"}
    /\ NoPrecheckRun
    /\ BusUp
    /\ SnapshotTaken
    /\ OneExecution
    /\ NoRead
    /\ NoDeploy
    /\ AuxIdle

NextDeploy == DeployToClients \/ DeployAgent \/ DeployReturn

SpecDeploy == InitDeploy /\ [][NextDeploy]_vars

\* ------------------------------------------------------- remote commands
\* how the remote side answers a command that reaches it
RemoteAnswers == {"ok", "nonzero", "timeout"}

\* SSHClient.run_command, lines 93-112: the command built by
\* _build_ssh_command is started.  With a password it begins with sshpass,
\* and where sshpass is not installed create_subprocess_exec raises
\* FileNotFoundError; RuntimeError of raise_on_error is raised inside the
\* try and caught by its last handler
SshRunCommand ==
    /\ ssh.pc = "call"
    /\ LET auth == IF ssh.password THEN "password" ELSE "key"
       IN  IF ssh.password /\ ~ssh.sshpass
           THEN ssh' = [ssh EXCEPT !.pc = "retry"]
           ELSE ssh' = [ssh EXCEPT
                  !.pc = "returned",
                  !.result =
                     CASE ssh.remote = "timeout" ->
                            [exit_code |-> -1, stderr |-> "timed_out", auth |-> auth]
                       [] ssh.remote = "ok" ->
                            [exit_code |-> 0, stderr |-> "none", auth |-> auth]
                       [] OTHER ->
                            IF ssh.raise_on_error
                            THEN [exit_code |-> -1, stderr |-> "command_failed",
                                  auth |-> auth]
                            ELSE [exit_code |-> 1, stderr |-> "remote", auth |-> auth]]
    /\ UNCHANGED <<restVars, hub, conn, agent, progress>>

\* SSHClient.run_command, lines 119-140: the handler of FileNotFoundError
\* drops "sshpass -p <password>" from the command and starts the rest
SshRetryWithoutPassword ==
    /\ ssh.pc = "retry"
    /\ ssh' = [ssh EXCEPT
          !.pc = "returned",
          !.result =
             CASE ssh.remote = "timeout" ->
                    [exit_code |-> -1, stderr |-> "timed_out", auth |-> "key"]
               [] ssh.remote = "ok" ->
                    [exit_code |-> 0, stderr |-> "none", auth |-> "key"]
               [] OTHER ->
                    [exit_code |-> 1, stderr |-> "remote", auth |-> "key"]]
    /\ UNCHANGED <<restVars, hub, conn, agent, progress>>

\* the engine is the one of InitDeploy; a command is about to be run
InitSsh ==
    /\ Created(1, 0)
    /\ cfg \in {c \in Configs(1) : c.clients.mode = "all" /\ c.tool = "fio"
                                    /\ ~c.run_prechecks /\ c.mount = "none"}
    /\ NoPrecheckRun
    /\ BusUp
    /\ SnapshotTaken
    /\ OneExecution
    /\ NoRead
    /\ NoDeploy
    /\ ssh \in [pc : {"call"}, password : BOOLEAN, key : BOOLEAN,
                 sshpass : BOOLEAN, raise_on_error : BOOLEAN,
                 remote : RemoteAnswers, result : {NoSshResult}]
    /\ NoHub
    /\ NoConn
    /\ NoAgent
    /\ IdleProgress

NextSsh == SshRunCommand \/ SshRetryWithoutPassword

SpecSsh == InitSsh /\ [][NextSsh]_vars

\* ------------------------------------------------------ event dispatch
\* the handlers a program registers
Handlers == 1..MaxHandlers

\* RedisClient.on_event and on_any, lines 101-111: the handler is appended
\* to the list of its key; an absent key reads as the empty list
OnEvent ==
    /\ \E k \in HandlerKeys, h \in Handlers :
         /\ \A j \in HandlerKeys : h \notin Range(hub.handlers[j])
         /\ hub' = [hub EXCEPT !.handlers[k] = Append(@, h)]
    /\ UNCHANGED <<restVars, ssh, conn, agent, progress>>

\* RedisClient._handle_message, lines 165-191, for a message that parses to
\* an event of type t: `handlers` is the list registered for t itself when
\* there is one, so extend() appends the handlers of "*" to that list
HandleMessage ==
    /\ hub.received < MaxEvents
    /\ \E t \in EventTypes :
         LET handlers == hub.handlers[t] \o hub.handlers["*"]
         IN  hub' = [hub EXCEPT
                       !.handlers[t] = IF hub.handlers[t] # <<>> THEN handlers ELSE @,
                       !.invoked = handlers,
                       !.last = t,
                       !.received = @ + 1]
    /\ UNCHANGED <<restVars, ssh, conn, agent, progress>>

InitHub ==
    /\ Created(1, 0)
    /\ cfg \in {c \in Configs(1) : c.clients.mode = "all" /\ c.tool = "fio"
                                    /\ ~c.run_prechecks /\ c.mount = "none"}
    /\ NoPrecheckRun
    /\ BusUp
    /\ SnapshotTaken
    /\ OneExecution
    /\ NoRead
    /\ NoDeploy
    /\ NoSsh
    /\ NoHub
    /\ NoConn
    /\ NoAgent
    /\ IdleProgress

NextHub == OnEvent \/ HandleMessage

SpecHub == InitHub /\ [][NextHub]_vars

\* ------------------------------------------------------ the bus client
\* one more call on the client
Called(c, outcome, pinged) ==
    [c EXCEPT !.last = outcome, !.pinged = pinged, !.calls = @ + 1]

\* RedisClient.connect, lines 40-50: with a connection object the call
\* returns at once; else the object is made and stored, and then pinged
Connect ==
    /\ conn.calls < MaxBusCalls
    /\ conn' = IF conn.redis # "none"
               THEN Called(conn, "returned_at_once", FALSE)
               ELSE IF conn.server = "up"
               THEN [Called(conn, "connected", TRUE) EXCEPT
                        !.redis = "set", !.tested = TRUE]
               ELSE [Called(conn, "connect_failed", TRUE) EXCEPT !.redis = "set"]
    /\ UNCHANGED <<restVars, ssh, hub, agent, progress>>

\* RedisClient.publish, lines 73-81
Publish ==
    /\ conn.calls < MaxBusCalls
    /\ conn' = IF conn.redis = "none"
               THEN Called(conn, "not_connected", FALSE)
               ELSE IF conn.server = "up"
               THEN Called(conn, "published", FALSE)
               ELSE Called(conn, "connection_error", FALSE)
    /\ UNCHANGED <<restVars, ssh, hub, agent, progress>>

\* RedisClient.subscribe, lines 113-122
Subscribe ==
    /\ conn.calls < MaxBusCalls
    /\ conn' = IF conn.redis = "none"
               THEN Called(conn, "not_connected", FALSE)
               ELSE [Called(conn, IF conn.server = "up" THEN "subscribed"
                                  ELSE "connection_error", FALSE)
                       EXCEPT !.pubsub = "set"]
    /\ UNCHANGED <<restVars, ssh, hub, agent, progress>>

\* RedisClient.disconnect, lines 52-71
Disconnect ==
    /\ conn.calls < MaxBusCalls
    /\ conn' = [Called(conn, "disconnected", FALSE) EXCEPT
                  !.redis = "none", !.pubsub = "none", !.tested = FALSE]
    /\ UNCHANGED <<restVars, ssh, hub, agent, progress>>

\* the Redis server goes away or comes back
ServerChanges ==
    /\ conn' = [conn EXCEPT !.server = IF @ = "up" THEN "down" ELSE "up"]
    /\ UNCHANGED <<restVars, ssh, hub, agent, progress>>

InitConn ==
    /\ Created(1, 0)
    /\ cfg \in {c \in Configs(1) : c.clients.mode = "all" /\ c.tool = "fio"
                                    /\ ~c.run_prechecks /\ c.mount = "none"}
    /\ NoPrecheckRun
    /\ BusUp
    /\ SnapshotTaken
    /\ OneExecution
    /\ NoRead
    /\ NoDeploy
    /\ NoSsh
    /\ NoHub
    /\ conn \in [redis : {"none"}, pubsub : {"none"}, server : {"up", "down"},
                  tested : {FALSE}, last : {"none"}, pinged : {FALSE},
                  calls : {0}]
    /\ NoAgent
    /\ IdleProgress

NextConn == Connect \/ Publish \/ Subscribe \/ Disconnect \/ ServerChanges

SpecConn == InitConn /\ [][NextConn]_vars

\* ------------------------------------------------------------ the agent
\* the execution ids the manager names in its events
AgentExecutions == 1..AgentRuns

\* an event of the given kind naming execution e was handled
Handled(a, kind, e) ==
    [a EXCEPT !.last = [kind |-> kind, id |-> e], !.events = @ + 1]

\* a guard that lets every execution id through
NamesCurrent_Any(e) == TRUE

\* agent WorkloadExecutor.pause and resume, lines 358-360 and 372-374, and
\* stop, lines 342-344, for an event that carries an id: the event is for the
\* current execution
NamesCurrent(e) == e = agent.current

\* agent/main.py handle_event, lines 85-91, and WorkloadExecutor.start, lines
\* 81-95: the start task runs; a running executor returns, else the flags and
\* the current execution are set
AgentStart ==
    /\ agent.events < MaxAgentEvents
    /\ \E e \in AgentExecutions :
         agent' = IF agent.is_running
                  THEN Handled(agent, "start", e)
                  ELSE [Handled(agent, "start", e) EXCEPT
                           !.is_running = TRUE, !.current = e,
                           !.stop_requested = FALSE, !.own_pause = FALSE,
                           !.pc = "spawn"]
    /\ UNCHANGED <<restVars, ssh, hub, conn, progress>>

\* _run_fio, lines 193-197: the benchmark process is created
AgentSpawn ==
    /\ agent.pc = "spawn"
    /\ agent' = [agent EXCEPT !.process = "running", !.pc = "monitor"]
    /\ UNCHANGED <<restVars, ssh, hub, conn, progress>>

\* _run_fio, lines 202-205: the head of the monitoring loop
AgentMonitor ==
    /\ agent.pc = "monitor"
    /\ agent' =
         IF agent.process = "exited" THEN [agent EXCEPT !.pc = "finally"]
         ELSE IF agent.stop_requested
         THEN [agent EXCEPT !.pc = "finally",
                            !.process = IF @ = "running" THEN "exited" ELSE @]
         ELSE IF agent.is_paused THEN [agent EXCEPT !.pc = "paused"]
         ELSE [agent EXCEPT !.pc = "waiting"]
    /\ UNCHANGED <<restVars, ssh, hub, conn, progress>>

\* _run_fio, lines 207-208: the inner loop sleeps while paused and not asked
\* to stop
AgentPausedWait ==
    /\ agent.pc = "paused"
    /\ ~(agent.is_paused /\ ~agent.stop_requested)
    /\ agent' = [agent EXCEPT !.pc = "waiting"]
    /\ UNCHANGED <<restVars, ssh, hub, conn, progress>>

\* _run_fio, lines 212-228: wait_for returns, with the exit of the process
\* or after a second
AgentWait ==
    /\ agent.pc = "waiting"
    /\ agent' = [agent EXCEPT !.pc = "monitor"]
    /\ UNCHANGED <<restVars, ssh, hub, conn, progress>>

\* the benchmark process ends by itself; a process stopped by SIGSTOP does not
ProcessExits ==
    /\ agent.process = "running"
    /\ agent' = [agent EXCEPT !.process = "exited"]
    /\ UNCHANGED <<restVars, ssh, hub, conn, progress>>

\* WorkloadExecutor.start, lines 115-119: the finally clause
AgentFinally ==
    /\ agent.pc = "finally"
    /\ agent' = [agent EXCEPT !.is_running = FALSE, !.current = 0,
                              !.process = "none", !.pc = "idle"]
    /\ UNCHANGED <<restVars, ssh, hub, conn, progress>>

\* WorkloadExecutor.stop, lines 340-354: terminate, and kill after five
\* seconds, end a process that has not exited
AgentStop ==
    /\ agent.events < MaxAgentEvents
    /\ \E e \in AgentExecutions :
         agent' = IF ~NamesCurrent(e)
                  THEN Handled(agent, "stop", e)
                  ELSE [Handled(agent, "stop", e) EXCEPT
                           !.stop_requested = TRUE,
                           !.process = IF @ \in {"running", "stopped"}
                                       THEN "exited" ELSE @]
    /\ UNCHANGED <<restVars, ssh, hub, conn, progress>>

\* WorkloadExecutor.pause, lines 356-369: SIGSTOP to a process that has not
\* exited
AgentPause ==
    /\ agent.events < MaxAgentEvents
    /\ \E e \in AgentExecutions :
         agent' = IF ~NamesCurrent(e)
                  THEN Handled(agent, "pause", e)
                  ELSE [Handled(agent, "pause", e) EXCEPT
                           !.is_paused = TRUE, !.own_pause = TRUE,
                           !.process = IF @ = "running" THEN "stopped" ELSE @]
    /\ UNCHANGED <<restVars, ssh, hub, conn, progress>>

\* WorkloadExecutor.resume, lines 371-384: SIGCONT to a process that has not
\* exited
AgentResume ==
    /\ agent.events < MaxAgentEvents
    /\ \E e \in AgentExecutions :
         agent' = IF ~NamesCurrent(e)
                  THEN Handled(agent, "resume", e)
                  ELSE [Handled(agent, "resume", e) EXCEPT
                           !.is_paused = FALSE,
                           !.process = IF @ = "stopped" THEN "running" ELSE @]
    /\ UNCHANGED <<restVars, ssh, hub, conn, progress>>

InitAgent ==
    /\ Created(1, 0)
    /\ cfg \in {c \in Configs(1) : c.clients.mode = "all" /\ c.tool = "fio"
                                    /\ ~c.run_prechecks /\ c.mount = "none"}
    /\ NoPrecheckRun
    /\ BusUp
    /\ SnapshotTaken
    /\ OneExecution
    /\ NoRead
    /\ NoDeploy
    /\ NoSsh
    /\ NoHub
    /\ NoConn
    /\ NoAgent
    /\ IdleProgress

\* the steps of the start task
AgentTask ==
    \/ AgentSpawn
    \/ AgentMonitor
    \/ AgentPausedWait
    \/ AgentWait
    \/ AgentFinally

\* the events the manager sends
AgentEvents == AgentStart \/ AgentStop \/ AgentPause \/ AgentResume

NextAgent == AgentTask \/ ProcessExits \/ AgentEvents

SpecAgent == InitAgent /\ [][NextAgent]_vars

\* the start task is scheduled and a running benchmark ends
FairSpecAgent == SpecAgent /\ WF_vars(AgentTask) /\ WF_vars(ProcessExits)

\* ------------------------------------------- one worker's deployment
\* deploy_agent, lines 186, 202, 229 and 260: the steps in the order they are
\* reported
Stages == <<"connecting", "installing", "copying", "starting">>

\* deploy_agent update_status, lines 181-183, with the route's callback,
\* clients.py lines 347-348, and update_deployment_status: the status is
\* written to the worker's row
StatusCallback(p, st) ==
    [p EXCEPT !.reported = Append(@, st), !.deployment_status = st]

\* deploy_agent_to_client, lines 331-361: a worker that is not configured is
\* answered 404, else deploy_agent is called
DeployAgentCalled ==
    /\ progress.pc = "idle"
    /\ progress' = [progress EXCEPT
                       !.pc = IF progress.registered THEN "report"
                              ELSE "not_found"]
    /\ UNCHANGED <<restVars, ssh, hub, conn, agent>>

\* deploy_agent, lines 186, 202, 229 and 260: the step is reported
DeployAgentReport ==
    /\ progress.pc = "report"
    /\ progress' = [StatusCallback(progress, Stages[progress.stage]) EXCEPT
                       !.pc = "run"]
    /\ UNCHANGED <<restVars, ssh, hub, conn, agent>>

\* deploy_agent, lines 188-294: the remote commands of the step run; a
\* failure returns a failed result without another report
DeployAgentStage ==
    /\ progress.pc = "run"
    /\ \E ok \in BOOLEAN :
         progress' =
           IF ~ok THEN [progress EXCEPT !.result = "failed", !.pc = "returned"]
           ELSE IF progress.stage < Len(Stages)
           THEN [progress EXCEPT !.stage = @ + 1, !.pc = "report"]
           ELSE [progress EXCEPT !.pc = "verify"]
    /\ UNCHANGED <<restVars, ssh, hub, conn, agent>>

\* deploy_agent, lines 296-326: the agent is verified; success is reported,
\* a failure is returned only
DeployAgentVerify ==
    /\ progress.pc = "verify"
    /\ \E ok \in BOOLEAN :
         progress' =
           IF ok
           THEN [StatusCallback(progress, "success") EXCEPT
                    !.result = "success", !.pc = "returned"]
           ELSE [progress EXCEPT !.result = "failed", !.pc = "returned"]
    /\ UNCHANGED <<restVars, ssh, hub, conn, agent>>

\* deploy_agent_to_client, lines 363-378, with update_client_status: the
\* worker's status, not its deployment status, is written from the result
DeployAgentToClient ==
    /\ progress.pc = "returned"
    /\ progress' = [progress EXCEPT
                       !.client_status = IF progress.result = "success"
                                         THEN "online" ELSE "error",
                       !.pc = "done"]
    /\ UNCHANGED <<restVars, ssh, hub, conn, agent>>

InitProgress ==
    /\ Created(1, 0)
    /\ cfg \in {c \in Configs(1) : c.clients.mode = "all" /\ c.tool = "fio"
                                    /\ ~c.run_prechecks /\ c.mount = "none"}
    /\ NoPrecheckRun
    /\ BusUp
    /\ SnapshotTaken
    /\ OneExecution
    /\ NoRead
    /\ NoDeploy
    /\ NoSsh
    /\ NoHub
    /\ NoConn
    /\ NoAgent
    /\ NoProgress

NextProgress ==
    \/ DeployAgentCalled
    \/ DeployAgentReport
    \/ DeployAgentStage
    \/ DeployAgentVerify
    \/ DeployAgentToClient

SpecProgress == InitProgress /\ [][NextProgress]_vars

\* ================================================================ claims

\* the transitions of the state machine of section 4.5, with the two the run
\* procedure adds to the drawing: prechecks are skipped when not requested,
\* and cancelled is written without a stored "stopping"
LegalEdges ==
    {<<"pending", "prechecks">>, <<"prechecks", "preparing">>,
     <<"preparing", "running">>, <<"running", "stopping">>,
     <<"stopping", "cancelled">>, <<"running", "completed">>,
     <<"running", "failed">>, <<"prechecks", "failed">>,
     <<"preparing", "failed">>, <<"running", "paused">>,
     <<"paused", "running">>,
     <<"pending", "preparing">>,
     <<"prechecks", "cancelled">>, <<"preparing", "cancelled">>,
     <<"running", "cancelled">>, <<"paused", "cancelled">>}

\* C1: every change of the stored status is a transition of the state machine
\* (pending -> prechecks -> preparing -> running -> stopping -> cancelled |
\* completed | failed, failed also from prechecks and preparing, running <->
\* paused), so that the statuses written form a prefix of a legal path and no
\* status but running and paused is entered again.
C1_StatusFollowsStateMachine ==
    [][(status' # status) => (<<status, status'>> \in LegalEdges)]_vars

\* C2: once the stored status is completed, failed or cancelled, no step
\* changes it.
C2_TerminalStatusIsFinal ==
    [][(status \in TerminalStatuses) => (status' = status)]_vars

\* C3: when the precheck report says failed, no prepare or benchmark command
\* is issued on any worker, the engine never stores participants, and
\* run_execution ends with the status failed.
C3_PrecheckGate ==
    report = "failed" =>
        /\ issued = {}
        /\ clients = <<>>
        /\ pc \in {"except", "done"}
        /\ pc = "done" => status = "failed"

C3_Witness ==
    /\ report = "failed"
    /\ pc = "done"
    /\ status = "failed"
    /\ stop_during # {}

\* the participants the spec's survivor arithmetic gives at run start
Survivors ==
    Without(Without(SelectClients(Without(inventory, excluded_clients), cfg.clients),
                    fio_failed),
            failed_mounts)

\* C4: when the run phase starts, the participants are the inventory minus
\* the precheck exclusions, narrowed by the selection policy, minus the
\* workers whose tool installation failed and those whose mount failed.
C4_SurvivorArithmetic ==
    pc = "run_status" => clients = Survivors

\* C5: when a stop was issued while the execution was in prechecks, preparing,
\* running or paused, the status run_execution leaves behind is cancelled;
\* stated here for the stops issued while the status is running or paused.
C5_StopEndsCancelled ==
    (pc = "done" /\ stop_during \cap {"running", "paused"} # {})
        => status = "cancelled"

\* C6: after a stop is issued on an execution whose status is not terminal,
\* the status eventually is completed, failed or cancelled.
C6_StopLeadsToTerminal ==
    (stopReq = "accepted" /\ status \notin TerminalStatuses)
        ~> (status \in TerminalStatuses)

\* C7: when the stop is observed after prepare stored participants, the
\* execution is left terminal only with cleanup run on every participant and
\* the command log persisted.
C7_StopRunsCleanup ==
    (pc = "done" /\ stop_seen /\ clients # <<>>) =>
        /\ \A w \in Range(clients) : <<"cleanup", w>> \in issued
        /\ command_log = <<>>
        /\ saved_command_log # <<>>

\* C8: when the run fan-out has returned, every task has a result; a worker
\* whose task returned metrics has exactly these metrics as its per-worker
\* sample and no failure line, whatever the other tasks did; a worker whose
\* task raised or returned no success has a failure line and no sample; and
\* the aggregate sample adds up the metrics of the workers that returned
\* them, over all the participants.
C8_FanOutIsolation ==
    pc = "run_final" =>
        /\ Len(results) = Len(local_clients)
        /\ \A i \in 1..Len(results) :
             IF results[i][1] = "ok"
             THEN /\ client_metrics[local_clients[i]] = <<results[i][2]>>
                  /\ local_clients[i] \notin exec_log
             ELSE /\ client_metrics[local_clients[i]] = <<>>
                  /\ local_clients[i] \in exec_log
        /\ aggregate[Len(aggregate)].iops =
               SumSeq([i \in 1..Len(results) |->
                          IF results[i][1] = "ok" THEN results[i][2] ELSE 0])
        /\ aggregate[Len(aggregate)].clients = Len(local_clients)

C8_Witness ==
    /\ pc = "run_final"
    /\ Len(local_clients) = 2
    /\ results[1][1] = "exception"
    /\ results[2][1] = "ok"

\* the step in which a scale_up call returns its dict
ScaleUpReturns ==
    /\ up.pc # "idle"
    /\ up'.pc = "idle"
    /\ up'.result.outcome = "ok"

\* the participants the returning scale_up call read
ReadByScaleUp == IF up.pc = "publish" THEN up.prev ELSE clients

C10_ScaleUpAppends ==
    [][(ScaleUpReturns /\ up'.result.changed # <<>>) =>
        /\ Len(clients') = Len(ReadByScaleUp) + Len(up'.result.changed)
        /\ SubSeq(clients', 1, Len(ReadByScaleUp)) = ReadByScaleUp]_vars

\* C11: a scale_up request that found the execution in another status than
\* running changes neither the participants nor the events handed to the bus,
\* and never gets past the route.
C11_ScaleUpOnlyWhenRunning ==
    [][(up' # up /\ up'.at \notin {"none", "running"}) =>
        /\ clients' = clients
        /\ published' = published
        /\ up'.pc \in {"route", "idle"}
        /\ up'.pc = "idle" => up'.result.outcome = "rejected"]_vars

C11_Witness ==
    /\ up.result.outcome = "rejected"
    /\ up.at = "prechecks"
    /\ up.count = 1
    /\ active
    /\ clients = <<>>

\* the step in which a scale_down call that was given a count or ids ends
ScaleDownEnds ==
    /\ down' # down
    /\ down'.pc = "idle"
    /\ down'.count > 0 \/ down'.client_ids # {}

\* the participants the ending scale_down call read
ReadByScaleDown == IF down.pc = "publish" THEN down.prev ELSE clients

\* the workers the request asks to remove from the participants prev
AskedToRemove(prev, count, ids) ==
    IF ids # {} THEN Range(prev) \cap ids ELSE Range(LastN(prev, count))

\* C12: when scale_down(count = k) or scale_down(client_ids = S) ends, the
\* participants are those it read without the last min(k, n) of them, or
\* without the members of S, the others in their order; the call reports
\* exactly the removed workers and the new number of participants, and a stop
\* event was handed to the bus for each removed worker.
C12_ScaleDownRemoves ==
    [][ScaleDownEnds =>
        LET gone == AskedToRemove(ReadByScaleDown, down'.count, down'.client_ids)
        IN /\ down'.result.outcome = "ok"
           /\ clients' = Without(ReadByScaleDown, gone)
           /\ Range(down'.result.changed) = gone
           /\ down'.result.total_clients = Len(clients')
           /\ {<<"execution.stop", w>> : w \in gone} \subseteq published']_vars

C14_NoWorkersNoRun ==
    [][(pc = "run_status" /\ Survivors = <<>>) =>
        (status' # "running" /\ issued' = issued)]_vars

\* C15: when the run fan-out has returned with a successful benchmark for at
\* least one participant, the execution goes on to completed; when it has
\* returned with an exception or an unsuccessful result for every participant,
\* the execution goes on to failed.
C15_ZeroSurvivorsEndFailed ==
    /\ (/\ pc = "run_final"
        /\ \E i \in 1..Len(results) : results[i][1] \in {"ok", "empty"})
           ~> (status = "completed")
    /\ (/\ pc = "run_final"
        /\ results # <<>>
        /\ \A i \in 1..Len(results) : results[i][1] \in {"exception", "failed"})
           ~> (status = "failed")

\* the workers a per-worker sample is appended for in the step
SampledNow == {w \in DOMAIN client_metrics :
                 Len(client_metrics'[w]) > Len(client_metrics[w])}

\* the sum of one field over the per-worker samples appended in the step
SampledTotal(field) ==
    SumSeq([w \in DOMAIN client_metrics |->
               IF w \in SampledNow
               THEN client_metrics'[w][Len(client_metrics'[w])][field]
               ELSE 0])

\* C16: the aggregate sample appended at the end of a run has iops.t equal to
\* the sum of iops.t, and bw_mbps.t equal to the sum of bw_mbps.t, over exactly
\* the per-worker samples stored in that run.
C16_AggregateSumsStoredSamples ==
    [][Len(aggregate') > Len(aggregate) =>
        LET agg == aggregate'[Len(aggregate')]
        IN  /\ agg.iops = SampledTotal("iops")
            /\ agg.bw_mbps = SampledTotal("bw_mbps")]_vars

\* a run of two workers in which one benchmark failed: one sample is stored
\* and the aggregate carries the totals of that sample alone
C16_Witness ==
    /\ pc = "run_final"
    /\ Len(aggregate) = 1
    /\ \E w \in DOMAIN client_metrics : client_metrics[w] = <<>>
    /\ \E w \in DOMAIN client_metrics :
         /\ client_metrics[w] # <<>>
         /\ aggregate[1].iops = client_metrics[w][1].iops
         /\ aggregate[1].bw_mbps > 0

\* the aggregator applied to per-worker samples alone: every sample is the
\* result of its worker
Replay(samples) ==
    AggregateMetrics([i \in 1..Len(samples) |-> i],
                     [i \in 1..Len(samples) |-> <<"ok", samples[i]>>])

\* the per-worker samples appended in the step, in the order of the workers
SamplesNow ==
    LET ws == SelectSeq([w \in DOMAIN client_metrics |-> w],
                        LAMBDA w : w \in SampledNow)
    IN  [i \in 1..Len(ws) |-> client_metrics'[ws[i]][Len(client_metrics'[ws[i]])]]

\* C17: the aggregate sample stored at the end of a run is what the aggregator
\* yields from the per-worker samples stored in that run alone: total IOPS,
\* total bandwidth, latency and client count.
C17_AggregateIsReplayable ==
    [][Len(aggregate') > Len(aggregate) =>
        aggregate'[Len(aggregate')] = Replay(SamplesNow)]_vars

\* C18: the summary written at cleanup has peak_iops equal to the largest
\* iops.t of the aggregate samples stored for the execution (0 when there are
\* none), total_samples equal to their number, and the participants as its
\* client list.
C18_SummaryOfAggregates ==
    [][summary' # summary =>
        /\ summary'.total_samples = Len(aggregate)
        /\ \A i \in 1..Len(aggregate) : summary'.peak_iops >= aggregate[i].iops
        /\ IF aggregate = <<>> THEN summary'.peak_iops = 0
           ELSE \E i \in 1..Len(aggregate) : summary'.peak_iops = aggregate[i].iops
        /\ summary'.clients = clients]_vars

\* a summary over one aggregate sample of two participants, one of which
\* stored no sample
C18_Witness ==
    /\ summary.saved
    /\ summary.total_samples = 1
    /\ summary.peak_iops = MaxIops
    /\ Len(summary.clients) = 2
    /\ \E w \in Range(summary.clients) : client_metrics[w] = <<>>

\* the inputs of the runner that the claim counts as blockers: a cluster check
\* that did not pass, a cluster that cannot be queried, a failed blocking
\* custom command
HasBlocker ==
    \/ runner.check_cluster /\ ~runner.reachable
    \/ \E i \in 1..Len(runner.checks) : ~runner.checks[i].passed
    \/ \E i \in 1..Len(runner.custom_commands) :
         runner.custom_commands[i].blocking /\ ~runner.custom_commands[i].success

\* C19: the verdict of the precheck report is failed, with can_proceed false,
\* if and only if there is a blocker (a cluster check that did not pass, a
\* cluster that cannot be queried, a failed blocking custom command);
\* otherwise it is passed_with_warnings if the report has a warning, and
\* passed if it has none.
C19_VerdictFollowsBlockers ==
    precheck.pc = "done" =>
        /\ precheck.overall_status = "failed" <=> HasBlocker
        /\ precheck.can_proceed <=> ~HasBlocker
        /\ HasBlocker <=> precheck.blocking_issues # <<>>
        /\ ~HasBlocker =>
              precheck.overall_status =
                  IF precheck.warnings # <<>> THEN "passed_with_warnings" ELSE "passed"

\* a report with warnings and a blocker, which is a failed blocking command
C19_Witness ==
    /\ precheck.pc = "done"
    /\ precheck.overall_status = "failed"
    /\ precheck.warnings # <<>>
    /\ precheck.blocking_issues = <<<<"Command", 2>>>>

\* the position of the first command of the list that is blocking and fails,
\* 0 when there is none
FirstBlockingFailure ==
    LET bad == Positions(runner.custom_commands,
                         {cmd \in CommandOutcomes : cmd.blocking /\ ~cmd.success})
    IN  IF bad = <<>> THEN 0 ELSE bad[1]

\* C20: the custom commands are run in the order of the list; no command after
\* the first one that is blocking and fails is run, and that command is a
\* blocking issue of the report; a failed command that is not blocking neither
\* ends the list nor is a blocking issue.
C20_CommandsStopAtBlockingFailure ==
    LET ran == precheck.results
        last == IF FirstBlockingFailure # 0 THEN FirstBlockingFailure
                ELSE Len(runner.custom_commands)
    IN  /\ \A i \in 1..Len(ran) : ran[i].command = i
        /\ Len(ran) <= last
        /\ precheck.pc \in {"collect", "clients", "verdict", "done"} => Len(ran) = last
        /\ precheck.pc = "done" =>
              {issue \in Range(precheck.blocking_issues) : issue[1] = "Command"}
                  = IF FirstBlockingFailure # 0
                    THEN {<<"Command", FirstBlockingFailure>>} ELSE {}

\* a list of three commands: the first fails and does not block, the second
\* fails and blocks, the third is not run
C20_Witness ==
    /\ precheck.pc = "done"
    /\ Len(runner.custom_commands) = 3
    /\ ~runner.custom_commands[1].success /\ ~runner.custom_commands[1].blocking
    /\ FirstBlockingFailure = 2
    /\ Len(precheck.results) = 2

\* C21: after the worker phase the exclusion list holds exactly the checked
\* workers that are not healthy (unreachable, agent not running, or an error
\* recorded), and when fewer than min_healthy_clients workers are left the
\* verdict is failed.
C21_ExclusionAndThreshold ==
    (precheck.pc = "done" /\ runner.check_clients) =>
        LET checked == runner.client_status
            healthy == {w \in 1..Len(checked) : checked[w] = "online"}
        IN  /\ Range(precheck.excluded_clients) = (1..Len(checked)) \ healthy
            /\ (checked # <<>> /\ Cardinality(healthy) < min_healthy_clients)
                  => precheck.overall_status = "failed"

\* C22: a step that sets the status paused is the pause of a running
\* execution: it leaves the pause flag set and a pause event published for
\* every participant; a step that takes the status away from paused is a stop
\* or the resume, which leaves the status running, the flag cleared and a
\* resume event published for every participant.
C22_PauseResume ==
    [][/\ (status' = "paused" /\ status # "paused") =>
            /\ status = "running"
            /\ pause_flags' = "true"
            /\ {<<"execution.pause", w>> : w \in Range(clients)} \subseteq published'
       /\ (status = "paused" /\ status' # "paused") =>
            \/ status' = "cancelled"
            \/ /\ resumeReq = "writing"
               /\ status' = "running"
               /\ pause_flags' = "false"
               /\ {<<"execution.resume", w>> : w \in Range(clients)} \subseteq published']_vars

\* C23: with Redis not connected, no step that would publish an event moves
\* the execution to failed or is lost: a stop that was seen leaves the status
\* cancelled, and a scale_up or scale_down over participants stored as ids
\* returns and has changed the participants.
C23_BusIsBestEffort ==
    bus = "down" =>
        /\ pc \in {"except", "done"} /\ stop_seen => status # "failed"
        /\ clients_repr = "id" => /\ up.result.outcome # "raised"
                                  /\ down.result.outcome # "raised"

\* C24: when the handler of a pause or resume signal finishes on an execution
\* the engine still runs, and no other one is in flight, the stored status and
\* the pause flag agree: paused with the flag set, or running with the flag
\* clear.
C24_SignalsInOrder ==
    [][(/\ (pauseReq = "writing" \/ resumeReq = "writing")
        /\ pauseReq' = "idle" /\ resumeReq' = "idle"
        /\ active') =>
          \/ status' = "paused" /\ pause_flags' = "true"
          \/ status' = "running" /\ pause_flags' = "false"]_vars

\* C25: the configuration snapshot of an execution and the configuration its
\* engine uses are the definition the workload had when the execution was
\* created, and no later save or deletion of the workload changes either.
C25_SnapshotIsACopy ==
    [][/\ (snapshot = <<>> /\ snapshot' # <<>>) =>
            (snapshot' = workloads /\ cfg' = workloads[1])
       /\ snapshot # <<>> => (snapshot' = snapshot /\ cfg' = cfg)]_vars

\* the workload was saved anew, or deleted, while the execution runs
C25_Witness ==
    /\ status = "running"
    /\ snapshot = <<cfg>>
    /\ workloads # snapshot

\* C26: the command log persisted for an execution holds every command the
\* executor logged for that execution and no command of another execution,
\* however the executions of the engine interleave and however the earlier
\* ones ended.
C26_CommandLogIsExecutionScoped ==
    \A e \in Executions :
        xpc[e] = "completed" =>
            /\ \A i \in 1..Len(commands_json[e]) : commands_json[e][i][1] = e
            /\ logged[e] = {c[2] : c \in Range(commands_json[e])}

Window == ReadMetrics(query.file, query.start_time, query.end_time)

\* s is sorted ascending
Chronological(s) == \A i, j \in 1..Len(s) : i < j => s[i] < s[j]

\* s takes every step-th element of w, starting anywhere
EvenlyStrided(s, w) ==
    \E step \in 1..Len(w), first \in 1..Len(w) :
        \A k \in 1..Len(s) :
            /\ first + (k - 1) * step <= Len(w)
            /\ s[k] = w[first + (k - 1) * step]

\* C28: a bounded metrics read returns the samples in chronological order;
\* a window of more than limit samples gives at most limit samples, an evenly
\* strided subsample holding the first and the last sample of the window; a
\* window of at most limit samples is returned whole.  Stated for limits of
\* at least two samples, which have room for both ends of the window.
C28_BoundedRead ==
    (response.outcome # "none" /\ query.limit >= 2) =>
        /\ response.outcome = "ok"
        /\ Chronological(response.metrics)
        /\ IF Len(Window) > query.limit
           THEN /\ Len(response.metrics) <= query.limit
                /\ EvenlyStrided(response.metrics, Window)
                /\ Window[1] \in Range(response.metrics)
                /\ Window[Len(Window)] \in Range(response.metrics)
           ELSE response.metrics = Window

\* C29: no update sets a phase that comes earlier in the order init,
\* precheck, prepare, ramp_up, steady_state, ramp_down, cleanup, done than
\* the phase it replaces.
C29_PhaseOnlyAdvances ==
    [][PhaseRank(phase') >= PhaseRank(phase)]_vars

\* the execution went through its phases up to the last one
C29_Witness ==
    /\ phase = "done"
    /\ status = "completed"
    /\ summary.saved

\* C30: deploy_to_clients returns one result per worker of its input, in the
\* order of the input and carrying that worker's id, each success or failed:
\* success exactly where the worker's own deployment succeeded, whatever
\* happened to the others.
C30_OneResultPerWorker ==
    deploy.pc = "returned" =>
        /\ Len(deploy.final_results) = Len(deploy.clients)
        /\ \A i \in 1..Len(deploy.clients) :
             /\ deploy.final_results[i].client_id = deploy.clients[i]
             /\ deploy.final_results[i].status \in {"success", "failed"}
             /\ deploy.final_results[i].status = "success"
                  <=> (deploy.results[i].kind = "result"
                       /\ deploy.results[i].status = "success")

\* a deployment that raised, followed in the list by one that succeeded
C30_Witness ==
    /\ deploy.pc = "returned"
    /\ Len(deploy.clients) = 2
    /\ deploy.results[1].kind = "exception"
    /\ deploy.final_results[2].status = "success"

\* C31: a command asked for with a password on a controller without the
\* password helper returns exit code -1 with the error that names the
\* missing helper, and is not run with key authentication.
C31_NoSilentKeyAuth ==
    (ssh.pc = "returned" /\ ssh.password /\ ~ssh.sshpass) =>
        /\ ssh.result.exit_code = -1
        /\ ssh.result.stderr = "sshpass_not_found"
        /\ ssh.result.auth = "none"

\* C32: once run_execution has returned, the engine holds no entry of the
\* execution in its active-execution map, its stop-flag map or its pause-flag
\* map, whatever stop, pause or resume is handled afterwards.
C32_NoEntryAfterReturn ==
    pc = "done" =>
        /\ ~active
        /\ stop_flags = "absent"
        /\ pause_flags = "absent"

\* C33: started_at, once set by the first write of the status running, is
\* changed by no later status update, and a write of a terminal status sets
\* completed_at.
C33_TimestampsCoverTheRun ==
    [][/\ started_at # "null" => started_at' = started_at
       /\ (status' \in TerminalStatuses /\ status' # status) =>
             completed_at' = "set"]_vars

\* C34: for the participants of an active execution as prepare stores them
\* (and a connected bus),
\* scale_down(client_ids = S) removes the workers named in S, scale_up ends
\* without an exception and leaves no worker twice among the participants,
\* and stop handling hands one stop event per participant id to the bus and
\* ends.
C34_OneRepresentation ==
    [][(active /\ clients # <<>> /\ clients_repr = "dict" /\ bus = "up") =>
          /\ (ScaleDownEnds /\ down'.client_ids # {}) =>
                /\ down'.result.outcome = "ok"
                /\ clients' = Without(ReadByScaleDown, down'.client_ids)
          /\ up' # up =>
                /\ up'.result.outcome # "raised"
                /\ \A i, j \in 1..Len(clients') : i # j => clients'[i] # clients'[j]
          /\ (pc = "handle_stopped" /\ pc' # pc) =>
                /\ pc' = "done"
                /\ {<<"execution.stop", w>> : w \in Range(clients)}
                      \subseteq published']_vars

\* C35: when a message is dispatched, each handler registered for the type
\* of its event and each handler registered for all events is called exactly
\* once and no other handler is called, and the registered handlers are the
\* same afterwards.
C35_EachHandlerOnce ==
    [][hub'.received = hub.received + 1 =>
          /\ hub'.handlers = hub.handlers
          /\ \A h \in Handlers :
               Cardinality({i \in 1..Len(hub'.invoked) : hub'.invoked[i] = h})
                 = IF h \in Range(hub.handlers[hub'.last])
                           \cup Range(hub.handlers["*"])
                   THEN 1 ELSE 0]_vars

\* C36: the client is connected only after a ping that succeeded: while none
\* has, publish and subscribe end with the not-connected error and connect
\* pings the server.
C36_ConnectedOnlyAfterTest ==
    [][(conn'.calls = conn.calls + 1 /\ ~conn.tested) =>
          /\ conn'.last \in {"connected", "connect_failed", "not_connected",
                              "disconnected"}
          /\ conn'.last \in {"connected", "connect_failed"} => conn'.pinged]_vars

\* C37: a start handled while an execution runs changes neither the current
\* execution nor its process, and a stop, pause or resume naming another
\* execution than the current one changes nothing of the executor.
C37_OneExecutionAtATime ==
    [][agent'.events = agent.events + 1 =>
          /\ (agent'.last.kind = "start" /\ agent.is_running) =>
                /\ agent'.current = agent.current
                /\ agent'.process = agent.process
                /\ agent'.pc = agent.pc
          /\ (agent'.last.kind \in {"stop", "pause", "resume"}
                 /\ agent'.last.id # agent.current) =>
                agent' = Handled(agent, agent'.last.kind, agent'.last.id)]_vars

\* a pause naming execution 2 was handled while execution 1 runs
C37_Witness ==
    /\ agent.is_running
    /\ agent.current = 1
    /\ agent.process = "running"
    /\ agent.last = [kind |-> "pause", id |-> 2]
    /\ ~agent.is_paused

\* C38: an execution that was not paused itself and whose benchmark process
\* has exited, or that was asked to stop, ends, whatever events the earlier
\* executions received: the agent gets back to idle.
C38_AgentReturnsToIdle ==
    (/\ agent.is_running
     /\ ~agent.own_pause
     /\ agent.process = "exited" \/ agent.stop_requested)
        ~> (~agent.is_running \/ agent.own_pause)

\* C39: once the deployment of a worker has returned, the statuses reported
\* are the first steps in their order, followed by success alone, and the
\* deployment status in the worker's row is success when the agent was
\* verified and failed otherwise.
C39_LastStatusTerminal ==
    progress.pc = "done" =>
        /\ \E n \in 1..Len(Stages) :
              \/ progress.reported = SubSeq(Stages, 1, n)
              \/ /\ n = Len(Stages)
                 /\ progress.reported = Append(Stages, "success")
        /\ progress.deployment_status =
              IF progress.result = "success" THEN "success" ELSE "failed"

\* the statuses reported so far are the first steps in their order, with
\* success after the last one at most
ReportedInOrder ==
    \E n \in 0..Len(Stages) :
        \/ progress.reported = SubSeq(Stages, 1, n)
        \/ progress.reported = Append(Stages, "success")
====
